---- MODULE Spec2Model ----
(***************************************************************************)
(* A state-machine model of mcp-app-view: the postMessage JSON-RPC         *)
(* transport (McpTransport), the host component (McpProxyHost), the app    *)
(* client (McpAppClient) and the tool-state reconciler kept by useMcpApp.  *)
(*                                                                         *)
(* Conventions.  Where a slot holds a string (an id, an origin, a handler,  *)
(* a tool name) a missing value is the string Null.  An inbound            *)
(* MessageEvent is a pair (data, origin); data is a record whose DOMAIN is *)
(* the set of own properties of the JavaScript object, so `'id' in data`   *)
(* is "id" \in DOMAIN data.  A value that is not an object (null,          *)
(* undefined, a string) is a record with a single field naming its kind.   *)
(* Timers fire at any moment after they were armed and before they are     *)
(* cleared; every handler runs to completion (one action), as on the       *)
(* browser's event loop.                                                   *)
(***************************************************************************)
EXTENDS Integers, Sequences, FiniteSets, TLC

VARIABLES
  \* ---- McpTransport (src/src/protocol/transport.ts)
  started,           \* this.started
  messageHandler,    \* this.messageHandler (Null or a handler)
  listeners,         \* number of 'message' listeners this transport has on window
  learnedOrigin,     \* this.learnedOrigin (Null or an origin)
  pendingRequests,   \* keys of this.pendingRequests
  nextRequestId,     \* this.nextRequestId
  timers,            \* request ids whose setTimeout is armed (not fired, not cleared)
  promises,          \* id -> the promise sendRequest returned for it
  removals,          \* id -> how often the id's entry was taken out of the table
  \* ---- McpProxyHost (src/tsup.config.ts:169-449)
  hostPending,       \* keys of pendingRequests.current
  hostNextRequestId, \* nextRequestId.current
  targetOrigin,      \* targetOrigin.current ('*' until an origin is learned)
  hostTimers,        \* request ids whose setTimeout is armed
  hostPromises,      \* id -> the promise sendRequest returned for it
  hostRemovals,      \* id -> how often the id's entry was taken out of the table
  hostClosure,       \* id -> the isInitialized its sendInitialize closure captured
  isInitialized,     \* the component's isInitialized state
  rendered,          \* the isInitialized the committed render's callbacks captured
  hostMounted,       \* is the component mounted (listener registered, iframe ref set)
  initializeRetries, \* initializeRetries.current
  initializeTimer,   \* initializeTimer.current (Null or a timer handle)
  retryTimers,       \* armed retry timers: [handle, closure]
  iframeSize,        \* the component's iframeSize state
  hostTasks,         \* handleAsync invocations suspended at an await
  \* ---- McpAppClient (src/tsup.config.ts:553-851)
  clientState,       \* this._state
  autoAcknowledge,   \* this.autoAcknowledge
  readyPosted,       \* history: start() has posted a client-ready notification
  \* ---- useMcpApp (src/unnamed/part_002)
  hook,              \* the isInitialized/appInfo/hostCapabilities/hostContext states
  tool,              \* the ToolState state
  subscribed,        \* are the hook's handlers registered on the client's emitter
  hookMounted,       \* has the effect of useMcpApp run and its cleanup not yet
  \* ---- useMcpToolStream (src/unnamed/part_001)
  stream,            \* the ToolStreamState state
  \* ---- the two windows' event queues (postMessage keeps the order)
  toApp,             \* envelopes the host posted, not yet dispatched in the frame
  toHost,            \* envelopes the frame posted, not yet dispatched in the host
  \* ---- the last step taken (history, read by the properties only)
  last

transportVars == <<started, messageHandler, listeners, learnedOrigin,
                   pendingRequests, nextRequestId, timers, promises, removals>>

hostVars == <<hostPending, hostNextRequestId, targetOrigin, hostTimers, hostPromises,
              hostRemovals, hostClosure, isInitialized, rendered, hostMounted,
              initializeRetries, initializeTimer, retryTimers, iframeSize, hostTasks>>

clientVars == <<clientState, autoAcknowledge, readyPosted>>

hookVars == <<hook, tool, subscribed, hookMounted, stream>>

wireVars == <<toApp, toHost>>

vars == <<transportVars, hostVars, clientVars, hookVars, wireVars, last>>

-----------------------------------------------------------------------------
(* Bounds and input sets *)

\* sendRequest calls per endpoint
MaxRequests == 2

Null == "<null>"
Wildcard == "*"
\* event.origin of an inbound MessageEvent; "" is the empty (falsy) origin
Origins == {"https://host.example", "https://other.example"}
EventOrigins == Origins \cup {""}
\* handlers a caller may pass to start()
Handlers == {"handlerA", "handlerB"}
\* methods a caller passes to sendRequest
RequestMethods == {"ui/message", "tools/call"}

-----------------------------------------------------------------------------
(* Request ids *)

\* transport.ts:106   `mcp-${++this.nextRequestId}`
McpId(n) == "mcp-" \o ToString(n)

\* tsup.config.ts:229   `host-${++nextRequestId.current}`
HostId(n) == "host-" \o ToString(n)

-----------------------------------------------------------------------------
(* Envelopes *)

\* src/src/protocol/types.ts:201-217   McpMethods
INITIALIZE == "ui/initialize"
TOOL_INPUT_PARTIAL == "ui/notifications/tool-input-partial"
TOOL_INPUT == "ui/notifications/tool-input"
TOOL_RESULT == "ui/notifications/tool-result"
TOOL_CANCELLED == "ui/tool-cancelled"
HOST_CONTEXT_CHANGED == "ui/notifications/host-context-changed"
RESOURCE_TEARDOWN == "ui/resource-teardown"
INITIALIZED == "ui/notifications/initialized"
SIZE_CHANGE == "ui/notifications/size-change"
OPEN_LINK == "ui/open-link"
MESSAGE == "ui/message"
CLIENT_READY == "ui/notifications/client-ready"
TOOLS_CALL == "tools/call"

\* tsup.config.ts:348   JSON-RPC "method not found"
MethodNotFound == -32601
\* tsup.config.ts:363   the generic internal-error code
InternalError == -32000

\* JavaScript values: null, undefined, '' and {} (objects are records)
NullObj == [null |-> TRUE]
Undefined == [undefined |-> TRUE]
EmptyString == [string |-> ""]
EmptyObj == [k \in {} |-> TRUE]

RequestWith(id, method, params) ==
  [jsonrpc |-> "2.0", id |-> id, method |-> method, params |-> params]
NotificationWith(method, params) == [jsonrpc |-> "2.0", method |-> method, params |-> params]
Request(id, method) == RequestWith(id, method, EmptyObj)
Notification(method) == NotificationWith(method, EmptyObj)
Success(id, result) == [jsonrpc |-> "2.0", id |-> id, result |-> result]
\* { ok: true }, { ok: true, ignored: true } and what an executor returned
OkResult == [ok |-> TRUE]
IgnoredResult == [ok |-> TRUE, ignored |-> TRUE]
ExecutorValue == [value |-> "executor value"]
ErrorResponse(id, code, message) ==
  [jsonrpc |-> "2.0", id |-> id, error |-> [code |-> code, message |-> message]]
NoData == [primitive |-> "none"]

\* transport.ts:185 / tsup.config.ts:281   the version-marker check
IsJsonRpcAnyVersion(data) == "jsonrpc" \in DOMAIN data

\* transport.ts:185 / tsup.config.ts:281   data.jsonrpc !== '2.0' returns
IsJsonRpc(data) == "jsonrpc" \in DOMAIN data /\ data.jsonrpc = "2.0"

\* transport.ts:198 / tsup.config.ts:290   'id' in data && !('method' in data)
IsResponse(data) == "id" \in DOMAIN data /\ "method" \notin DOMAIN data

\* data.result, undefined when the property is absent
ResultOf(data) == IF "result" \in DOMAIN data THEN data.result ELSE Undefined

-----------------------------------------------------------------------------
(* Promises: the first resolve/reject settles, later calls have no effect;  *)
(* calls counts every invocation of resolve or reject.                      *)

NewPromise(method) == [state |-> "pending", by |-> "none", value |-> [none |-> TRUE],
                       calls |-> 0, method |-> method]

\* new Error(message)
JsError(message) == [name |-> "Error", message |-> message]

Settle(p, state, by, value) ==
  [p EXCEPT !.state = IF p.state = "pending" THEN state ELSE @,
            !.by    = IF p.state = "pending" THEN by ELSE @,
            !.value = IF p.state = "pending" THEN value ELSE @,
            !.calls = @ + 1]

\* transport.ts:119 / tsup.config.ts:235
TimeoutMessage(method) == "Request timeout: " \o method
TimeoutError(method) == JsError(TimeoutMessage(method))
\* transport.ts:91
StoppedMessage == "Transport stopped"
StoppedError == JsError(StoppedMessage)

\* The removal counters after a step that took the pending table from `before`
\* to `after` (history: counts the entries Map.delete / Map.clear took out)
CountRemovals(counts, before, after) ==
  [id \in DOMAIN counts |->
     IF id \in before /\ id \notin after THEN counts[id] + 1 ELSE counts[id]]

\* The record of one step: the operation, the request id it settled or issued,
\* the inbound event (data, origin), the handler involved (start: the one
\* passed; handleMessage: the one the envelope was forwarded to) and the
\* envelopes the step posted
Step(op, id, data, origin, handler, posts) ==
  [op |-> op, id |-> id, data |-> data, origin |-> origin, handler |-> handler,
   posts |-> posts, callbacks |-> {}]

\* The same for a step of the host component, with the host-supplied callbacks
\* (onInitialized, onError, ...) the step invoked
HostStep(op, id, data, origin, posts, callbacks) ==
  [op |-> op, id |-> id, data |-> data, origin |-> origin, handler |-> Null,
   posts |-> posts, callbacks |-> callbacks]

-----------------------------------------------------------------------------
(* McpTransport *)

\* transport.ts:167, 176   this.learnedOrigin ?? this.targetOrigin
OriginOf(learned) == IF learned # Null THEN learned ELSE Wildcard

\* getOrigin() and send() using the configured target whatever was learned
getOriginConfigured == Wildcard

\* transport.ts:166-168
getOrigin == OriginOf(learnedOrigin)

\* transport.ts:170-179   the posts of one send(message): targetWindow is the
\* parent window of the frame the transport runs in
send(message) == <<[msg |-> message, target |-> getOrigin]>>

\* start() without its `if (this.started) return` guard
startUnguarded(handler) ==
  /\ messageHandler' = handler
  /\ listeners' = listeners + 1
  /\ started' = TRUE
  /\ UNCHANGED <<learnedOrigin, pendingRequests, nextRequestId, timers, promises, removals>>
  /\ last' = Step("start", Null, NoData, "", handler, <<>>)

\* transport.ts:65-75   what start(handler) does to the transport
startEffect(handler) ==
  /\ IF started
       THEN UNCHANGED <<messageHandler, listeners, started>>
       ELSE /\ messageHandler' = handler
            /\ listeners' = listeners + 1
            /\ started' = TRUE
  /\ UNCHANGED <<learnedOrigin, pendingRequests, nextRequestId, timers, promises, removals>>

\* transport.ts:65-75   a caller calls start(handler)
start(handler) ==
  /\ startEffect(handler)
  /\ last' = Step("start", Null, NoData, "", handler, <<>>)

\* transport.ts:89-90   stop() clears the timer of every pending request
StopTimers(ts, pending) == ts \ pending

\* transport.ts:93   this.pendingRequests.clear()
StopTable(pending) == {}

\* stop() forgetting the promises of the requests it removes
StopPromisesPending(ps, pending) == ps

\* transport.ts:89-92   stop() rejects every pending request
StopPromises(ps, pending) ==
  [id \in DOMAIN ps |->
     IF id \in pending THEN Settle(ps[id], "rejected", "stop", StoppedError) ELSE ps[id]]

\* stop() with the request counter reset
StopCounterReset(n) == 0

\* transport.ts:80-100   stop() does not assign this.nextRequestId
StopCounter(n) == n

\* transport.ts:80-100   what stop() does to the transport
stopEffect ==
    IF ~started
       THEN UNCHANGED transportVars
       ELSE /\ listeners' = listeners - 1
            /\ timers' = StopTimers(timers, pendingRequests)
            /\ promises' = StopPromises(promises, pendingRequests)
            /\ pendingRequests' = StopTable(pendingRequests)
            /\ removals' = CountRemovals(removals, pendingRequests, pendingRequests')
            /\ messageHandler' = Null
            /\ started' = FALSE
            /\ nextRequestId' = StopCounter(nextRequestId)
            /\ UNCHANGED learnedOrigin

\* transport.ts:80-100   a caller calls stop()
stop ==
  /\ stopEffect
  /\ last' = Step("stop", Null, NoData, "", Null, <<>>)

\* transport.ts:105-125   sendRequest(method, params)
sendRequestWith(method, params) ==
  /\ nextRequestId < MaxRequests
  /\ LET id == McpId(nextRequestId + 1) IN
       /\ nextRequestId' = nextRequestId + 1
       /\ timers' = timers \cup {id}
       /\ pendingRequests' = pendingRequests \cup {id}
       /\ promises' = (id :> NewPromise(method)) @@ promises
       /\ removals' = (id :> 0) @@ removals
       /\ last' = Step("sendRequest", id, NoData, "", Null,
                       send(RequestWith(id, method, params)))
  /\ UNCHANGED <<started, messageHandler, listeners, learnedOrigin>>

\* transport.ts:105-125   sendRequest(method) of a caller that passes no params:
\* the envelope's params is undefined
sendRequest(method) == sendRequestWith(method, Undefined)

\* transport.ts:130-137   sendNotification(method, params)
sendNotification(method, params) ==
  /\ UNCHANGED transportVars
  /\ last' = Step("sendNotification", Null, NoData, "", Null,
                  send(NotificationWith(method, params)))

\* the timer callback without its delete
TimeoutTableKept(pending, id) == pending

\* transport.ts:118   this.pendingRequests.delete(id) in the timer callback
TimeoutTable(pending, id) == pending \ {id}

\* transport.ts:119   reject(new Error(`Request timeout: ${method}`))
TimeoutReject(p) == Settle(p, "rejected", "timeout", TimeoutError(p.method))

requestTimeout(id) ==
  /\ id \in timers
  /\ timers' = timers \ {id}
  /\ pendingRequests' = TimeoutTable(pendingRequests, id)
  /\ removals' = CountRemovals(removals, pendingRequests, pendingRequests')
  /\ promises' = [promises EXCEPT ![id] = TimeoutReject(@)]
  /\ UNCHANGED <<started, messageHandler, listeners, learnedOrigin, nextRequestId>>
  /\ last' = Step("requestTimeout", id, NoData, "", Null, <<>>)

\* the origin update without its `!this.learnedOrigin` test
LearnOriginLatest(learned, origin) ==
  IF origin # "" THEN origin ELSE learned

\* transport.ts:190-193
LearnOrigin(learned, origin) ==
  IF learned = Null /\ origin # "" THEN origin ELSE learned

\* the response branch without clearTimeout
ResponseTimersKept(ts, id) == ts

\* transport.ts:201   if (pending.timer) clearTimeout(pending.timer)
ResponseTimers(ts, id) == ts \ {id}

\* transport.ts:204-208
SettleResponse(p, data) ==
  IF "error" \in DOMAIN data
    THEN Settle(p, "rejected", "error", data.error)
    ELSE Settle(p, "fulfilled", "response", [result |-> ResultOf(data)])

\* handleMessage with a check of event.origin against the learned origin
ProcessesEventOfLearned(data, origin) ==
  IsJsonRpc(data) /\ (learnedOrigin = Null \/ origin = learnedOrigin)

\* transport.ts:182-187   does handleMessage process the event: it reads
\* event.data only, event.origin plays no part
ProcessesEvent(data, origin) == IsJsonRpc(data)

\* handleMessage forwarding the responses it matched to no pending request
ForwardsUnmatched(data, pending) == ~IsResponse(data) \/ data.id \notin pending

\* transport.ts:198-214   is the envelope passed on to the message handler:
\* the response branch returns whether or not the id was pending
Forwards(data, pending) == ~IsResponse(data)

\* transport.ts:198-200   does the envelope settle a pending request
Settles(data, origin) ==
  ProcessesEvent(data, origin) /\ IsResponse(data) /\ data.id \in pendingRequests

\* transport.ts:214   the handler the envelope is passed on to (Null: none)
ForwardedTo(data, origin) ==
  IF ProcessesEvent(data, origin) /\ ~Settles(data, origin)
       /\ Forwards(data, pendingRequests)
    THEN messageHandler
    ELSE Null

\* transport.ts:181-215   what handleMessage(event) does to the transport
handleMessageEffect(data, origin) ==
  /\ listeners > 0
  /\ IF ~ProcessesEvent(data, origin)
       THEN UNCHANGED transportVars
       ELSE
         /\ learnedOrigin' = LearnOrigin(learnedOrigin, origin)
         /\ UNCHANGED <<started, messageHandler, listeners, nextRequestId>>
         /\ IF Settles(data, origin)
              THEN /\ timers' = ResponseTimers(timers, data.id)
                   /\ pendingRequests' = pendingRequests \ {data.id}
                   /\ removals' = CountRemovals(removals, pendingRequests,
                                                pendingRequests')
                   /\ promises' = [promises EXCEPT ![data.id] = SettleResponse(@, data)]
              ELSE UNCHANGED <<timers, pendingRequests, removals, promises>>

\* transport.ts:181-215   handleMessage(event), run by the window's listener
handleMessage(data, origin) ==
  /\ handleMessageEffect(data, origin)
  /\ last' = Step("handleMessage", IF Settles(data, origin) THEN data.id ELSE Null,
                  data, origin, ForwardedTo(data, origin), <<>>)

-----------------------------------------------------------------------------
(* McpProxyHost *)

\* tsup.config.ts:270   the retry bound of sendInitialize
RetryLimit == 5

\* tsup.config.ts:216-225   the posts of one send(message): none when the
\* iframe ref is empty, as it is once the component has unmounted
hostSend(message, target) ==
  IF hostMounted THEN <<[msg |-> message, target |-> target]>> ELSE <<>>

\* tsup.config.ts:176-178, 260-265   the params of ui/initialize, built from
\* the component's props (here their defaults)
HostInitializeParams ==
  [protocolVersion |-> "mcp-apps/0.1",
   appInfo |-> [name |-> "MCP Host", version |-> "1.0.0"],
   hostCapabilities |-> [openLinks |-> EmptyObj],
   hostContext |-> EmptyObj]

\* tsup.config.ts:230   the request sendInitialize has sendRequest build
InitializeRequest(id) == RequestWith(id, INITIALIZE, HostInitializeParams)

\* tsup.config.ts:228-241   sendRequest(INITIALIZE, params, 2000) as sendInitialize
\* calls it; closure is the isInitialized the calling sendInitialize captured
hostSendRequest(closure) ==
  LET id == HostId(hostNextRequestId + 1) IN
    /\ hostNextRequestId' = hostNextRequestId + 1
    /\ hostTimers' = hostTimers \cup {id}
    /\ hostPending' = hostPending \cup {id}
    /\ hostPromises' = (id :> NewPromise(INITIALIZE)) @@ hostPromises
    /\ hostRemovals' = (id :> 0) @@ hostRemovals
    /\ hostClosure' = (id :> closure) @@ hostClosure

\* the catch of sendInitialize without the bound on the counter
ShouldRetryUnbounded(closure, retries) == ~closure

\* the catch of sendInitialize that never retries
ShouldRetryNever(closure, retries) == FALSE

\* tsup.config.ts:270   the condition of the retry in sendInitialize's catch
ShouldRetry(closure, retries) == ~closure /\ retries < RetryLimit

\* tsup.config.ts:268-274   the catch handler of sendInitialize, run when the
\* promise of request id rejects
hostCatch(id) ==
  IF ShouldRetry(hostClosure[id], initializeRetries)
    THEN /\ initializeRetries' = initializeRetries + 1
         /\ initializeTimer' = "retry:" \o id
         /\ retryTimers' = retryTimers \cup
                             {[handle |-> "retry:" \o id, closure |-> hostClosure[id]]}
    ELSE UNCHANGED <<initializeRetries, initializeTimer, retryTimers>>

\* tsup.config.ts:376-380   the iframe's onLoad; it calls the sendInitialize of
\* the committed render, which closes over that render's isInitialized
handleIframeLoad ==
  /\ hostMounted
  /\ initializeRetries' = 0
  /\ hostSendRequest(rendered)
  /\ UNCHANGED <<targetOrigin, isInitialized, rendered, hostMounted, initializeTimer,
                 retryTimers, iframeSize, hostTasks>>
  /\ last' = HostStep("handleIframeLoad", HostId(hostNextRequestId + 1), NoData, "",
                      hostSend(InitializeRequest(HostId(hostNextRequestId + 1)),
                               targetOrigin), {})

\* tsup.config.ts:195, 315   React commits the re-render setIsInitialized(true)
\* asked for: from now on the iframe's onLoad is the new render's callback
hostCommit ==
  /\ hostMounted
  /\ rendered # isInitialized
  /\ rendered' = isInitialized
  /\ UNCHANGED <<hostPending, hostNextRequestId, targetOrigin, hostTimers, hostPromises,
                 hostRemovals, hostClosure, isInitialized, hostMounted,
                 initializeRetries, initializeTimer, retryTimers, iframeSize, hostTasks>>
  /\ last' = HostStep("hostCommit", Null, NoData, "", <<>>, {})

\* tsup.config.ts:370-372, 383-393   the component unmounts: the listener is
\* removed, the latest retry timer and the timers of the pending requests are
\* cleared and the table is emptied; no promise is settled, initializeTimer
\* keeps its handle and an earlier retry timer stays armed
hostUnmount ==
  /\ hostMounted
  /\ hostMounted' = FALSE
  /\ retryTimers' = {t \in retryTimers : t.handle # initializeTimer}
  /\ hostTimers' = hostTimers \ hostPending
  /\ hostPending' = {}
  /\ hostRemovals' = CountRemovals(hostRemovals, hostPending, hostPending')
  /\ UNCHANGED <<hostNextRequestId, targetOrigin, hostPromises, hostClosure,
                 isInitialized, rendered, initializeRetries, initializeTimer,
                 iframeSize, hostTasks>>
  /\ last' = HostStep("hostUnmount", Null, NoData, "", <<>>, {})

\* tsup.config.ts:244-246   sendNotification(method, params) of the component
hostSendNotification(method, params) ==
  /\ UNCHANGED hostVars
  /\ last' = HostStep("hostSendNotification", Null, NoData, "",
                      hostSend(NotificationWith(method, params), targetOrigin), {})

\* tsup.config.ts:399-415   the methods of the component's ref, which exists
\* while the component is mounted
sendToolInputPartial(params) ==
  hostMounted /\ hostSendNotification(TOOL_INPUT_PARTIAL, params)
sendToolInput(params) == hostMounted /\ hostSendNotification(TOOL_INPUT, params)
sendToolResult(params) == hostMounted /\ hostSendNotification(TOOL_RESULT, params)
sendHostContextChanged(context) ==
  hostMounted /\ hostSendNotification(HOST_CONTEXT_CHANGED, context)
sendResourceTeardown == hostMounted /\ hostSendNotification(RESOURCE_TEARDOWN, EmptyObj)

\* tsup.config.ts:272   the retry timer fires and runs the sendInitialize that armed it
hostRetry(t) ==
  /\ t \in retryTimers
  /\ retryTimers' = retryTimers \ {t}
  /\ hostSendRequest(t.closure)
  /\ UNCHANGED <<targetOrigin, isInitialized, rendered, hostMounted, initializeRetries,
                 initializeTimer, iframeSize, hostTasks>>
  /\ last' = HostStep("hostRetry", HostId(hostNextRequestId + 1), NoData, "",
                      hostSend(InitializeRequest(HostId(hostNextRequestId + 1)),
                               targetOrigin), {})

\* tsup.config.ts:233-236   the timer callback of sendRequest, then the catch
hostRequestTimeout(id) ==
  /\ id \in hostTimers
  /\ hostTimers' = hostTimers \ {id}
  /\ hostPending' = hostPending \ {id}
  /\ hostRemovals' = CountRemovals(hostRemovals, hostPending, hostPending')
  /\ hostPromises' = [hostPromises EXCEPT ![id] = TimeoutReject(@)]
  /\ IF hostPromises[id].state = "pending"
       THEN hostCatch(id)
       ELSE UNCHANGED <<initializeRetries, initializeTimer, retryTimers>>
  /\ UNCHANGED <<hostNextRequestId, targetOrigin, hostClosure, isInitialized, rendered,
                 hostMounted, iframeSize, hostTasks>>
  /\ last' = HostStep("hostRequestTimeout", id, NoData, "", <<>>, {})

\* tsup.config.ts:284-287
hostLearnOrigin(target, origin) ==
  IF target = Wildcard /\ origin # "" THEN origin ELSE target

\* tsup.config.ts:280-281   does the host's handleMessage process the event
hostProcessesEvent(data, origin) == IsJsonRpc(data)

\* tsup.config.ts:290   does the host's handleMessage take the response branch
hostIsResponse(data) == IsResponse(data)

\* tsup.config.ts:306-307   const { method, params, id } = data; if (!method) return
MethodOf(data) == IF "method" \in DOMAIN data THEN data.method ELSE ""
IdOf(data) == IF "id" \in DOMAIN data THEN data.id ELSE Null
\* tsup.config.ts:332, 345   can linkParams.url / toolParams.name be read:
\* a property read of null or undefined throws
HasParams(data) == "params" \in DOMAIN data /\ data.params \notin {NullObj, Undefined}

\* The behaviours of the externally supplied callback a dispatch calls: it is
\* not supplied, it returns a value, it throws, it returns a promise that is
\* rejected; and, where the dispatcher awaits it, it returns a promise that
\* is settled in a later task
SyncBehaviours == {"absent", "returns", "throws", "rejects"}
AsyncBehaviours == SyncBehaviours \cup {"awaits"}
\* handleAsync invocations that may be suspended at the same time
MaxTasks == 2

\* the message of the Error a failing callback throws or rejects with, and of
\* the TypeError of a property read on undefined params
CallbackFailure == "callback failed"
TypeErrorMessage(data, property) ==
  "Cannot read properties of "
    \o (IF "params" \in DOMAIN data /\ data.params = NullObj THEN "null"
        ELSE "undefined")
    \o " (reading '" \o property \o "')"

\* tsup.config.ts:358-365   the catch of handleAsync
hostCatchAsync(id, target, message) ==
  [posts |-> IF id # Null
               THEN hostSend(ErrorResponse(id, InternalError, message), target)
               ELSE <<>>,
   callbacks |-> {"onError"}, awaits |-> FALSE]

\* sendResponse answering the request that has waited longest: the id of a
\* suspended invocation when there is one
hostReplyOldest(id, result, target, callbacks) ==
  LET waiting == {t \in hostTasks : t.id # Null}
      oldest == IF waiting = {} THEN id ELSE (CHOOSE t \in waiting : TRUE).id
  IN [posts |-> IF id # Null THEN hostSend(Success(oldest, result), target) ELSE <<>>,
      callbacks |-> callbacks, awaits |-> FALSE]

\* sendResponse posting nothing
hostReplyNothing(id, result, target, callbacks) ==
  [posts |-> <<>>, callbacks |-> callbacks, awaits |-> FALSE]

\* tsup.config.ts:249-251   if (id !== undefined) sendResponse(id, result)
hostReply(id, result, target, callbacks) ==
  [posts |-> IF id # Null THEN hostSend(Success(id, result), target) ELSE <<>>,
   callbacks |-> callbacks, awaits |-> FALSE]

hostNoReply(callbacks) == [posts |-> <<>>, callbacks |-> callbacks, awaits |-> FALSE]

Called(name, cb) == IF cb = "absent" THEN {} ELSE {name}

\* tsup.config.ts:311-366   what handleAsync posts and calls up to its first
\* suspension: cb is the behaviour of the callback the method's case calls.
\* onInitialized, onSizeChange and onOpenLink are called without await: the
\* promise they return is dropped, so its rejection never reaches the catch.
\* onMessage and onToolCall are awaited: a rejected promise throws there
handleAsync(data, cb, target) ==
  LET id == IdOf(data)
      method == MethodOf(data)
      failed(name) == [hostCatchAsync(id, target, CallbackFailure)
                         EXCEPT !.callbacks = @ \cup {name}]
  IN CASE method = INITIALIZED ->
            IF cb = "throws" THEN failed("onInitialized")
            ELSE hostNoReply(Called("onInitialized", cb))
       [] method = SIZE_CHANGE ->
            IF cb = "throws" THEN failed("onSizeChange")
            ELSE hostNoReply(Called("onSizeChange", cb))
       [] method = OPEN_LINK ->
            IF cb # "absent" /\ ~HasParams(data)
              THEN hostCatchAsync(id, target, TypeErrorMessage(data, "url"))
            ELSE IF cb = "throws"
                   THEN failed("onOpenLink")
                   ELSE hostReply(id, OkResult, target, Called("onOpenLink", cb))
       [] method = MESSAGE ->
            IF cb \in {"throws", "rejects"} THEN failed("onMessage")
            ELSE IF cb = "awaits"
                   THEN [posts |-> <<>>, callbacks |-> {"onMessage"}, awaits |-> TRUE]
                   ELSE hostReply(id, OkResult, target, Called("onMessage", cb))
       [] method = TOOLS_CALL ->
            IF cb = "absent"
              THEN [posts |-> IF id # Null
                                THEN hostSend(ErrorResponse(id, MethodNotFound,
                                                "Tool call handler not configured"), target)
                                ELSE <<>>,
                    callbacks |-> {}, awaits |-> FALSE]
            ELSE IF ~HasParams(data)
              THEN hostCatchAsync(id, target, TypeErrorMessage(data, "name"))
            ELSE IF cb \in {"throws", "rejects"}
                   THEN failed("onToolCall")
            ELSE IF cb = "awaits"
                   THEN [posts |-> <<>>, callbacks |-> {"onToolCall"}, awaits |-> TRUE]
                   ELSE hostReply(id, ExecutorValue, target, {"onToolCall"})
       [] OTHER -> hostReply(id, IgnoredResult, target, {})

\* a serial number for a suspended handleAsync invocation
FreeTask == CHOOSE n \in 1..MaxTasks : \A t \in hostTasks : t.n # n

\* tsup.config.ts:279-369   handleMessage(event), the window's 'message' listener
hostHandleMessage(data, origin, cb) ==
  /\ hostMounted
  /\ UNCHANGED <<rendered, hostMounted>>
  /\ IF ~hostProcessesEvent(data, origin)
    THEN /\ UNCHANGED <<hostPending, hostNextRequestId, targetOrigin, hostTimers,
                        hostPromises, hostRemovals, hostClosure, isInitialized,
                        initializeRetries, initializeTimer, retryTimers, iframeSize,
                        hostTasks>>
         /\ last' = HostStep("hostHandleMessage", Null, data, origin, <<>>, {})
    ELSE
      /\ targetOrigin' = hostLearnOrigin(targetOrigin, origin)
      /\ UNCHANGED <<hostNextRequestId, hostClosure>>
      /\ IF hostIsResponse(data)
           THEN
             /\ UNCHANGED <<isInitialized, iframeSize, hostTasks>>
             /\ IF data.id \in hostPending
                  THEN /\ hostTimers' = hostTimers \ {data.id}
                       /\ hostPending' = hostPending \ {data.id}
                       /\ hostRemovals' = CountRemovals(hostRemovals, hostPending, hostPending')
                       /\ hostPromises' = [hostPromises EXCEPT
                                             ![data.id] = SettleResponse(@, data)]
                       /\ IF "error" \in DOMAIN data /\ hostPromises[data.id].state = "pending"
                            THEN hostCatch(data.id)
                            ELSE UNCHANGED <<initializeRetries, initializeTimer, retryTimers>>
                       /\ last' = HostStep("hostHandleMessage", data.id, data, origin, <<>>, {})
                  ELSE /\ UNCHANGED <<hostTimers, hostPending, hostRemovals, hostPromises,
                                      initializeRetries, initializeTimer, retryTimers>>
                       /\ last' = HostStep("hostHandleMessage", Null, data, origin, <<>>, {})
           ELSE
             /\ UNCHANGED <<hostTimers, hostPending, hostRemovals, hostPromises>>
             /\ IF MethodOf(data) = ""
                  THEN /\ UNCHANGED <<isInitialized, initializeRetries, initializeTimer,
                                      retryTimers, iframeSize, hostTasks>>
                       /\ last' = HostStep("hostHandleMessage", Null, data, origin, <<>>, {})
                  ELSE
                    LET out == handleAsync(data, cb, targetOrigin') IN
                      /\ out.awaits => Cardinality(hostTasks) < MaxTasks
                      /\ IF MethodOf(data) = INITIALIZED
                           THEN /\ isInitialized' = TRUE
                                /\ initializeRetries' = 0
                                /\ initializeTimer' = Null
                                /\ retryTimers' =
                                     {t \in retryTimers : t.handle # initializeTimer}
                           ELSE UNCHANGED <<isInitialized, initializeRetries,
                                            initializeTimer, retryTimers>>
                      /\ iframeSize' = IF MethodOf(data) = SIZE_CHANGE
                                         THEN (IF "params" \in DOMAIN data
                                                 THEN data.params ELSE Undefined)
                                         ELSE iframeSize
                      /\ hostTasks' = IF out.awaits
                                        THEN hostTasks \cup
                                               {[n |-> FreeTask, id |-> IdOf(data),
                                                 method |-> MethodOf(data)]}
                                        ELSE hostTasks
                      /\ last' = [behaviour |-> cb]
                                   @@ [HostStep("hostHandleMessage", Null, data, origin,
                                                out.posts, out.callbacks)
                                         EXCEPT !.handler = "handleAsync"]

\* tsup.config.ts:338-339, 345-346, 358-365   the callback a handleAsync awaits
\* settles and the invocation resumes
hostResume(t, outcome) ==
  /\ t \in hostTasks
  /\ hostTasks' = hostTasks \ {t}
  /\ UNCHANGED <<hostPending, hostNextRequestId, targetOrigin, hostTimers, hostPromises,
                 hostRemovals, hostClosure, isInitialized, rendered, hostMounted,
                 initializeRetries, initializeTimer, retryTimers, iframeSize>>
  /\ LET out == IF outcome = "rejects"
                  THEN hostCatchAsync(t.id, targetOrigin, CallbackFailure)
                  ELSE hostReply(t.id, IF t.method = TOOLS_CALL THEN ExecutorValue
                                       ELSE OkResult, targetOrigin, {})
     IN last' = [behaviour |-> outcome, method |-> t.method]
                  @@ [HostStep("hostResume", t.id, NoData, "", out.posts, out.callbacks)
                        EXCEPT !.handler = "handleAsync"]

-----------------------------------------------------------------------------
(* JavaScript objects *)

\* obj.key, undefined when the property is absent
Field(obj, key) == IF key \in DOMAIN obj THEN obj[key] ELSE Undefined

\* obj?.key: undefined when obj is null or undefined
OptField(obj, key) == IF obj \in {NullObj, Undefined} THEN Undefined ELSE Field(obj, key)

\* the own enumerable properties of the string s from its i-th character on:
\* the characters under their indices "0", "1", ...
RECURSIVE Characters(_, _)
Characters(s, i) ==
  IF i > Len(s) THEN EmptyObj
  ELSE (ToString(i - 1) :> SubSeq(s, i, i)) @@ Characters(s, i + 1)

\* the properties ...v copies: none of null, undefined, a number or a boolean,
\* the characters of a string, the fields of an object
OwnProperties(v) ==
  IF "string" \in DOMAIN v THEN Characters(v.string, 1)
  ELSE IF DOMAIN v \cap {"null", "undefined", "number", "boolean", "primitive"} # {}
         THEN EmptyObj
         ELSE v

\* { ...a, ...b }: b's keys win
Spread(a, b) == OwnProperties(b) @@ OwnProperties(a)

\* the truthiness of a value
Falsy == {NullObj, Undefined, EmptyString, [number |-> 0], [boolean |-> FALSE]}
Truthy(v) == v \notin Falsy

\* typeof v === 'object' && v !== null for the values of the model: an object
\* is a record none of whose keys marks a primitive
Primitives == {"null", "undefined", "string", "number", "boolean", "primitive"}
IsObject(v) == DOMAIN v \cap Primitives = {}

\* does reading a property of v throw a TypeError
ThrowsOnRead(v) == v \in {NullObj, Undefined}

\* params.tool.name for a params.tool that can be read
UndefinedName == "<undefined>"
ToolName(params) == IF "name" \in DOMAIN params.tool THEN params.tool.name ELSE UndefinedName

-----------------------------------------------------------------------------
(* McpAppClient *)

\* tsup.config.ts:557-568
ClientInitialState ==
  [isInitialized |-> FALSE, appInfo |-> NullObj, hostCapabilities |-> NullObj,
   hostContext |-> NullObj,
   tool |-> [name |-> Null, arguments |-> NullObj, result |-> NullObj,
             isStreaming |-> FALSE]]

Event(type, params) == [type |-> type, params |-> params]

\* The statements of a handler that act on the world, in program order: an
\* assignment to this._state, a postMessage, an emit
Assign(state) == [kind |-> "assign", state |-> state]
Post(msg, target) == [kind |-> "post", msg |-> msg, target |-> target]
Emit(event) == [kind |-> "emit", event |-> event]

IsAssign(e) == e.kind = "assign"
IsPost(e) == e.kind = "post"
IsEmit(e) == e.kind = "emit"

StateAfter(state, effects) ==
  LET assigns == SelectSeq(effects, IsAssign)
  IN IF assigns = <<>> THEN state ELSE assigns[Len(assigns)].state
PostsOf(effects) ==
  LET posts == SelectSeq(effects, IsPost)
  IN [i \in 1..Len(posts) |-> [msg |-> posts[i].msg, target |-> posts[i].target]]
EventsOf(effects) ==
  LET emits == SelectSeq(effects, IsEmit)
  IN [i \in 1..Len(emits) |-> emits[i].event]

\* What one handler invocation did: the new _state, the envelopes posted, the
\* events emitted, these statements in program order, and whether it threw
\* (a TypeError on a missing object)
Effects(state, effects) ==
  [state |-> StateAfter(state, effects), posts |-> PostsOf(effects),
   events |-> EventsOf(effects), effects |-> effects, throws |-> FALSE]
Handled(state, posts, events) ==
  [state |-> state, posts |-> posts, events |-> events,
   effects |-> [i \in 1..Len(posts) |-> Post(posts[i].msg, posts[i].target)]
                 \o [i \in 1..Len(events) |-> Emit(events[i])],
   throws |-> FALSE]
Threw(state) ==
  [state |-> state, posts |-> <<>>, events |-> <<>>, effects |-> <<>>, throws |-> TRUE]

\* const { method, params, id } = message   (tsup.config.ts:709)
ParamsOf(message) == IF "params" \in DOMAIN message THEN message.params ELSE Undefined

\* handleInitialize merging the new host context into the old one
InitializeContextMerged(old, params) == Spread(old, Field(params, "hostContext"))

\* hostContext: params.hostContext  (tsup.config.ts:750)
InitializeContext(old, params) == Field(params, "hostContext")

\* handleInitialize starting the snapshot's tool afresh on every handshake
InitializeEffectsFreshTool(state, params, id, autoAck, target) ==
  <<Assign([state EXCEPT !.isInitialized = TRUE,
                         !.appInfo = Field(params, "appInfo"),
                         !.hostCapabilities = Field(params, "hostCapabilities"),
                         !.hostContext = Field(params, "hostContext"),
                         !.tool = [name |-> Null, arguments |-> NullObj,
                                   result |-> NullObj, isStreaming |-> FALSE]])>>
    \o (IF id # Null THEN <<Post(Success(id, OkResult), target)>> ELSE <<>>)
    \o (IF autoAck THEN <<Post(Notification(INITIALIZED), target)>> ELSE <<>>)
    \o <<Emit(Event("initialize", params)), Emit(Event("initialized", Undefined))>>

\* handleInitialize emitting its events before it stores the snapshot
InitializeEffectsEmitFirst(state, params, id, autoAck, target) ==
  <<Emit(Event("initialize", params)), Emit(Event("initialized", Undefined)),
    Assign([state EXCEPT !.isInitialized = TRUE,
                         !.appInfo = Field(params, "appInfo"),
                         !.hostCapabilities = Field(params, "hostCapabilities"),
                         !.hostContext = InitializeContext(state.hostContext, params)])>>
    \o (IF id # Null THEN <<Post(Success(id, OkResult), target)>> ELSE <<>>)
    \o (IF autoAck THEN <<Post(Notification(INITIALIZED), target)>> ELSE <<>>)

\* tsup.config.ts:747-764   the statements of handleInitialize
InitializeEffects(state, params, id, autoAck, target) ==
  <<Assign([state EXCEPT !.isInitialized = TRUE,
                         !.appInfo = Field(params, "appInfo"),
                         !.hostCapabilities = Field(params, "hostCapabilities"),
                         !.hostContext = InitializeContext(state.hostContext, params)])>>
    \o (IF id # Null THEN <<Post(Success(id, OkResult), target)>> ELSE <<>>)
    \o (IF autoAck THEN <<Post(Notification(INITIALIZED), target)>> ELSE <<>>)
    \o <<Emit(Event("initialize", params)), Emit(Event("initialized", Undefined))>>

\* tsup.config.ts:744-765
handleInitialize(state, message, autoAck, target) ==
  IF ThrowsOnRead(ParamsOf(message)) THEN Threw(state)
  ELSE
    LET params == message.params
        id == IdOf(message)
    IN Effects(state, InitializeEffects(state, params, id, autoAck, target))

\* the validation rejecting the empty string only
InvalidArgumentsEmptyOnly(args) == args = EmptyString

\* tsup.config.ts:771, 794   args === '' || args === null || typeof args !== 'object'
InvalidArguments(args) == ~IsObject(args)

\* tsup.config.ts:767-788
handleToolInputPartial(state, message) ==
  IF ThrowsOnRead(ParamsOf(message)) THEN Threw(state)
  ELSE
    LET params == message.params
        args == Field(params, "arguments")
    IN IF InvalidArguments(args) THEN Handled(state, <<>>, <<>>)
       ELSE IF ThrowsOnRead(Field(params, "tool")) THEN Threw(state)
       ELSE Effects(state,
                    <<Assign([state EXCEPT !.tool =
                               [name |-> ToolName(params),
                                arguments |-> Spread(state.tool.arguments, args),
                                result |-> NullObj,
                                isStreaming |-> TRUE]]),
                      Emit(Event("toolInputPartial", params))>>)

\* tsup.config.ts:790-811
handleToolInput(state, message) ==
  IF ThrowsOnRead(ParamsOf(message)) THEN Threw(state)
  ELSE
    LET params == message.params
        args == Field(params, "arguments")
    IN IF InvalidArguments(args) THEN Handled(state, <<>>, <<>>)
       ELSE IF ThrowsOnRead(Field(params, "tool")) THEN Threw(state)
       ELSE Effects(state,
                    <<Assign([state EXCEPT !.tool =
                               [name |-> ToolName(params),
                                arguments |-> args,
                                result |-> NullObj,
                                isStreaming |-> TRUE]]),
                      Emit(Event("toolInput", params))>>)

\* handleToolResult without the check of the result
handleToolResultUnvalidated(state, message) ==
  IF ThrowsOnRead(ParamsOf(message)) THEN Threw(state)
  ELSE
    LET params == message.params
        result == Field(params, "result")
    IN IF ThrowsOnRead(Field(params, "tool")) THEN Threw(state)
       ELSE Effects(state,
                    <<Assign([state EXCEPT !.tool.name = ToolName(params),
                                           !.tool.result = result,
                                           !.tool.isStreaming = FALSE]),
                      Emit(Event("toolResult", params))>>)

\* tsup.config.ts:813-832
handleToolResult(state, message) ==
  IF ThrowsOnRead(ParamsOf(message)) THEN Threw(state)
  ELSE
    LET params == message.params
        result == Field(params, "result")
    IN IF result \in {EmptyString, Undefined} THEN Handled(state, <<>>, <<>>)
       ELSE IF ThrowsOnRead(Field(params, "tool")) THEN Threw(state)
       ELSE Effects(state,
                    <<Assign([state EXCEPT !.tool.name = ToolName(params),
                                           !.tool.result = result,
                                           !.tool.isStreaming = FALSE]),
                      Emit(Event("toolResult", params))>>)

\* tsup.config.ts:834-841
handleHostContextChanged(state, message) ==
  LET params == ParamsOf(message)
  IN Effects(state,
             <<Assign([state EXCEPT !.hostContext = Spread(state.hostContext, params)]),
               Emit(Event("hostContextChanged", params))>>)

\* handleResourceTeardown acknowledging whatever it is handed
handleResourceTeardownAlways(state, message, target) ==
  Effects(state,
          <<Post(Success(IdOf(message), OkResult), target),
            Emit(Event("resourceTeardown", Undefined))>>)

\* tsup.config.ts:843-850
handleResourceTeardown(state, message, target) ==
  Effects(state,
          (IF IdOf(message) # Null
             THEN <<Post(Success(IdOf(message), OkResult), target)>>
             ELSE <<>>)
            \o <<Emit(Event("resourceTeardown", Undefined))>>)

\* tsup.config.ts:705-742   McpAppClient.handleMessage(message)
clientHandleMessage(state, message, autoAck, target) ==
  IF "method" \notin DOMAIN message THEN Handled(state, <<>>, <<>>)
  ELSE CASE message.method = INITIALIZE ->
              handleInitialize(state, message, autoAck, target)
         [] message.method = TOOL_INPUT_PARTIAL -> handleToolInputPartial(state, message)
         [] message.method = TOOL_INPUT -> handleToolInput(state, message)
         [] message.method = TOOL_RESULT -> handleToolResult(state, message)
         [] message.method = HOST_CONTEXT_CHANGED -> handleHostContextChanged(state, message)
         [] message.method = RESOURCE_TEARDOWN ->
              handleResourceTeardown(state, message, target)
         [] OTHER ->
              Handled(state,
                      IF IdOf(message) # Null
                        THEN <<[msg |-> Success(IdOf(message), IgnoredResult),
                                target |-> target]>>
                        ELSE <<>>,
                      <<>>)

\* tsup.config.ts:583   this.handleMessage.bind(this), the transport's handler
ClientHandler == "McpAppClient.handleMessage"

-----------------------------------------------------------------------------
(* useMcpApp: the handlers it registers on the client's events *)

\* part_002:144-147
HookInitialState ==
  [isInitialized |-> FALSE, appInfo |-> NullObj, hostCapabilities |-> NullObj,
   hostContext |-> NullObj]

\* part_002:148-156
ToolInitialState ==
  [name |-> Null, arguments |-> NullObj, partialUpdate |-> NullObj,
   toolProgress |-> NullObj, result |-> NullObj, status |-> "idle",
   isStreaming |-> FALSE]

\* toolInfo?.tool?.name, "" (falsy) when any link is missing or the name is
\* null or undefined
ToolInfoName(context) ==
  LET info == OptField(context, "toolInfo")
      t == OptField(info, "tool")
  IN IF t \in {NullObj, Undefined} \/ "name" \notin DOMAIN t THEN ""
     ELSE IF t.name \in {Null, UndefinedName} THEN ""
     ELSE t.name

\* the initialize handler starting the tool state afresh on every handshake
onInitializeResetting(t, params) ==
  LET name == ToolInfoName(params.hostContext)
  IN [ToolInitialState EXCEPT !.name = IF name # "" THEN name ELSE Null]

\* part_002:165-178
onInitialize(t, params) ==
  LET name == ToolInfoName(Field(params, "hostContext"))
  IN IF name # "" THEN [t EXCEPT !.name = name] ELSE t

onInitializeHook(h, params) ==
  [isInitialized |-> TRUE, appInfo |-> Field(params, "appInfo"),
   hostCapabilities |-> Field(params, "hostCapabilities"),
   hostContext |-> Field(params, "hostContext")]

\* part_002:184-185
IsProgressUpdate(args) ==
  \/ ("kind" \in DOMAIN args /\ args.kind = "botdojo-tool-progress")
  \/ ("_botdojoProgress" \in DOMAIN args /\ args._botdojoProgress = TRUE)

\* the toolInputPartial handler merging a progress payload into toolProgress
onToolInputPartialMerging(t, params) ==
  IF IsProgressUpdate(params.arguments)
    THEN IF t.status = "complete"
           THEN [t EXCEPT !.toolProgress = Spread(t.toolProgress, params.arguments)]
           ELSE [t EXCEPT !.name = ToolName(params),
                          !.toolProgress = Spread(t.toolProgress, params.arguments),
                          !.status = "streaming",
                          !.isStreaming = TRUE]
    ELSE IF t.status = "complete"
           THEN [t EXCEPT !.partialUpdate = params.arguments]
           ELSE [t EXCEPT !.name = ToolName(params),
                          !.partialUpdate = params.arguments,
                          !.status = "streaming",
                          !.isStreaming = TRUE]

\* part_002:180-229
onToolInputPartial(t, params) ==
  IF IsProgressUpdate(params.arguments)
    THEN IF t.status = "complete"
           THEN [t EXCEPT !.toolProgress = params.arguments]
           ELSE [t EXCEPT !.name = ToolName(params),
                          !.toolProgress = params.arguments,
                          !.status = "streaming",
                          !.isStreaming = TRUE]
    ELSE IF t.status = "complete"
           THEN [t EXCEPT !.partialUpdate = params.arguments]
           ELSE [t EXCEPT !.name = ToolName(params),
                          !.partialUpdate = params.arguments,
                          !.status = "streaming",
                          !.isStreaming = TRUE]

\* the toolInput handler without its `prev.status === 'complete'` branch
onToolInputUnguarded(t, params) ==
  [t EXCEPT !.name = ToolName(params),
            !.arguments = params.arguments,
            !.partialUpdate = NullObj,
            !.result = NullObj,
            !.status = "streaming",
            !.isStreaming = TRUE]

\* the toolInput handler merging the arguments and keeping partialUpdate
onToolInputMerging(t, params) ==
  IF t.status = "complete"
    THEN [t EXCEPT !.name = ToolName(params),
                   !.arguments = Spread(t.arguments, params.arguments)]
    ELSE [t EXCEPT !.name = ToolName(params),
                   !.arguments = Spread(t.arguments, params.arguments),
                   !.result = NullObj,
                   !.status = "streaming",
                   !.isStreaming = TRUE]

\* part_002:231-257
onToolInput(t, params) ==
  IF t.status = "complete"
    THEN [t EXCEPT !.name = ToolName(params),
                   !.arguments = params.arguments,
                   !.partialUpdate = NullObj]
    ELSE [t EXCEPT !.name = ToolName(params),
                   !.arguments = params.arguments,
                   !.partialUpdate = NullObj,
                   !.result = NullObj,
                   !.status = "streaming",
                   !.isStreaming = TRUE]

\* part_002:259-269
onToolResult(t, params) ==
  [t EXCEPT !.name = ToolName(params),
            !.result = params.result,
            !.toolProgress = NullObj,
            !.status = "complete",
            !.isStreaming = FALSE]

\* part_002:271-280
onHostContextChanged(t, params) ==
  LET name == ToolInfoName(params)
  IN IF name # "" THEN [t EXCEPT !.name = name] ELSE t

onHostContextChangedHook(h, params) ==
  [h EXCEPT !.hostContext = Spread(h.hostContext, params)]

\* the resourceTeardown handler dropping what the tool call had collected
onResourceTeardownClearing(t) ==
  [t EXCEPT !.status = "teardown", !.isStreaming = FALSE, !.partialUpdate = NullObj,
            !.toolProgress = NullObj, !.result = NullObj]

\* part_002:282-288
onResourceTeardown(t) == [t EXCEPT !.status = "teardown", !.isStreaming = FALSE]

\* The ToolState after the handler subscribed to event.type ran
ApplyEvent(t, event) ==
  CASE event.type = "initialize" -> onInitialize(t, event.params)
    [] event.type = "toolInputPartial" -> onToolInputPartial(t, event.params)
    [] event.type = "toolInput" -> onToolInput(t, event.params)
    [] event.type = "toolResult" -> onToolResult(t, event.params)
    [] event.type = "hostContextChanged" -> onHostContextChanged(t, event.params)
    [] event.type = "resourceTeardown" -> onResourceTeardown(t)
    [] OTHER -> t

ApplyEventHook(h, event) ==
  CASE event.type = "initialize" -> onInitializeHook(h, event.params)
    [] event.type = "hostContextChanged" -> onHostContextChangedHook(h, event.params)
    [] OTHER -> h

RECURSIVE ApplyEvents(_, _)
\* tsup.config.ts:495-503   emit calls the handlers in the order of the events
ApplyEvents(t, events) ==
  IF events = <<>> THEN t ELSE ApplyEvents(ApplyEvent(t, Head(events)), Tail(events))

RECURSIVE ApplyEventsHook(_, _)
ApplyEventsHook(h, events) ==
  IF events = <<>> THEN h
  ELSE ApplyEventsHook(ApplyEventHook(h, Head(events)), Tail(events))

\* the status derived from the result alone
SyncStatusByResult(t) == IF Truthy(t.result) THEN "complete" ELSE "idle"

\* part_002:307   the status the catch-up sync derives from the client's tool
SyncStatus(t) ==
  IF t.isStreaming THEN "streaming" ELSE IF Truthy(t.result) THEN "complete" ELSE "idle"

\* part_002:299-309   the ToolState after the catch-up sync
SyncTool(t, clientTool) ==
  IF clientTool.name \notin {Null, UndefinedName, ""} \/ Truthy(clientTool.arguments)
    THEN [name |-> clientTool.name, arguments |-> clientTool.arguments,
          partialUpdate |-> NullObj, toolProgress |-> NullObj,
          result |-> clientTool.result, isStreaming |-> clientTool.isStreaming,
          status |-> SyncStatus(clientTool)]
    ELSE t

\* history: how often in a row the client was handed the same envelope
MaxRepeat == 3
Repeat(data) ==
  IF last.op = "clientReceive" /\ last.handler # Null /\ last.data = data
    THEN (IF last.repeat < MaxRepeat THEN last.repeat + 1 ELSE MaxRepeat)
    ELSE 1

\* transport.ts:181-215 and tsup.config.ts:705-742   a MessageEvent arrives at
\* the window of a started client: the transport's handleMessage, then for a
\* forwarded envelope the client's handleMessage, then the hook's handlers
\* for the events the client emitted
clientReceive(data, origin) ==
  /\ messageHandler = ClientHandler
  /\ handleMessageEffect(data, origin)
  /\ LET forwarded == ForwardedTo(data, origin) # Null
         out == IF forwarded
                  THEN clientHandleMessage(clientState, data, autoAcknowledge,
                                           OriginOf(LearnOrigin(learnedOrigin, origin)))
                  ELSE Handled(clientState, <<>>, <<>>)
     IN /\ clientState' = out.state
        /\ UNCHANGED <<autoAcknowledge, readyPosted, subscribed, hookMounted, stream>>
        /\ tool' = IF subscribed THEN ApplyEvents(tool, out.events) ELSE tool
        /\ hook' = IF subscribed THEN ApplyEventsHook(hook, out.events) ELSE hook
        /\ last' = [op |-> "clientReceive", id |-> Null, data |-> data,
                    origin |-> origin,
                    handler |-> ForwardedTo(data, origin),
                    posts |-> out.posts,
                    callbacks |-> {out.events[i].type : i \in 1..Len(out.events)}
                                    \cup (IF out.throws THEN {"throws"} ELSE {}),
                    repeat |-> IF forwarded THEN Repeat(data) ELSE 0,
                    effects |-> out.effects]

\* the first statement of start(): the transport adds its listener
Listen(handler) == [kind |-> "listen", handler |-> handler]

\* start() posting its notification before the listener is attached, and
\* only on the first start
StartEffectsReadyOnce ==
  IF started THEN <<>>
  ELSE <<Post(Notification(CLIENT_READY), getOrigin), Listen(ClientHandler)>>

\* tsup.config.ts:582-587   the statements of McpAppClient.start(); the
\* transport's start() returns early when it is started (transport.ts:66)
StartEffects ==
  (IF started THEN <<>> ELSE <<Listen(ClientHandler)>>)
    \o <<Post(Notification(CLIENT_READY), getOrigin)>>

\* tsup.config.ts:582-587   McpAppClient.start()
clientStart ==
  /\ startEffect(ClientHandler)
  /\ readyPosted' = (readyPosted \/ PostsOf(StartEffects) # <<>>)
  /\ UNCHANGED <<clientState, autoAcknowledge, hookVars>>
  /\ last' = [op |-> "clientStart", id |-> Null, data |-> NoData, origin |-> "",
              handler |-> ClientHandler, posts |-> PostsOf(StartEffects),
              callbacks |-> {}, repeat |-> 0, effects |-> StartEffects]

\* tsup.config.ts:646-648   McpAppClient.sendMessage(content)
sendMessage(content) ==
  /\ sendRequestWith(MESSAGE, [content |-> content])
  /\ UNCHANGED <<clientVars, hookVars>>

\* tsup.config.ts:653-655   McpAppClient.openLink(url)
openLink(url) ==
  /\ sendRequestWith(OPEN_LINK, [url |-> url])
  /\ UNCHANGED <<clientVars, hookVars>>

\* tsup.config.ts:660-663   McpAppClient.reportSize(width, height); useMcpApp
\* registers no handler for the sizeChange event it emits
reportSize(width, height) ==
  /\ sendNotification(SIZE_CHANGE, [width |-> width, height |-> height])
  /\ UNCHANGED <<clientVars, hookVars>>

\* tsup.config.ts:668-674   McpAppClient.callTool(name, args)
callTool(name, args) ==
  /\ sendRequestWith(TOOLS_CALL, [name |-> name, arguments |-> args])
  /\ UNCHANGED <<clientVars, hookVars>>

\* tsup.config.ts:690-692   McpAppClient.sendNotification(method, params)
clientSendNotification(method, params) ==
  /\ sendNotification(method, params)
  /\ UNCHANGED <<clientVars, hookVars>>

\* tsup.config.ts:592-607   McpAppClient.stop(): the transport stops, the
\* emitter drops every handler, the state is the initial one again
clientStop ==
  /\ stopEffect
  /\ clientState' = ClientInitialState
  /\ subscribed' = FALSE
  /\ UNCHANGED <<autoAcknowledge, readyPosted, hook, tool, hookMounted, stream>>
  /\ last' = Step("clientStop", Null, NoData, "", Null, <<>>)

\* part_002:159-310   the effect of useMcpApp runs: it registers the handlers,
\* then copies the state the client collected before that
hookMount ==
  /\ ~hookMounted
  /\ hookMounted' = TRUE
  /\ subscribed' = TRUE
  /\ hook' = IF clientState.isInitialized
               THEN [isInitialized |-> TRUE, appInfo |-> clientState.appInfo,
                     hostCapabilities |-> clientState.hostCapabilities,
                     hostContext |-> clientState.hostContext]
               ELSE hook
  /\ tool' = IF clientState.isInitialized THEN SyncTool(tool, clientState.tool) ELSE tool
  /\ UNCHANGED <<transportVars, clientVars, stream>>
  /\ last' = Step("hookMount", Null, NoData, "", Null, <<>>)

\* part_002:312-320 and tsup.config.ts:592-607   the cleanup of the effect:
\* the handlers are removed, if a stop() of the client has not removed them
\* before, and the client is stopped
hookUnmount ==
  /\ hookMounted
  /\ hookMounted' = FALSE
  /\ subscribed' = FALSE
  /\ stopEffect
  /\ clientState' = ClientInitialState
  /\ UNCHANGED <<autoAcknowledge, readyPosted, hook, tool, stream>>
  /\ last' = Step("hookUnmount", Null, NoData, "", Null, <<>>)

-----------------------------------------------------------------------------
(* useMcpToolStream: the tool state a caller folds by hand, or by wiring    *)
(* the handlers to the subscriptions of useMcpProtocol                      *)

\* part_001:39-46
initialState ==
  [name |-> Null, arguments |-> NullObj, partialArguments |-> NullObj,
   result |-> NullObj, status |-> "idle", isStreaming |-> FALSE]

\* part_001:82-89   the updater of handleToolInputPartial
streamToolInputPartial(prev, params) ==
  [prev EXCEPT !.name = ToolName(params),
               !.partialArguments = Spread(prev.partialArguments, params.arguments),
               !.arguments = Spread(prev.arguments, params.arguments),
               !.status = "streaming",
               !.isStreaming = TRUE]

\* part_001:93-100   the updater of handleToolInput
streamToolInput(prev, params) ==
  [prev EXCEPT !.name = ToolName(params),
               !.arguments = params.arguments,
               !.partialArguments = params.arguments,
               !.status = "streaming",
               !.isStreaming = TRUE]

\* part_001:104-110   the updater of handleToolResult
streamToolResult(prev, params) ==
  [prev EXCEPT !.name = ToolName(params),
               !.result = Field(params, "result"),
               !.status = "complete",
               !.isStreaming = FALSE]

\* handleTeardown reporting the torn-down call as failed
streamTeardownAsError(prev) == [prev EXCEPT !.status = "error", !.isStreaming = FALSE]

\* part_001:114-118   the updater of handleTeardown
streamTeardown(prev) == [prev EXCEPT !.status = "teardown", !.isStreaming = FALSE]

\* a call of one of the functions useMcpToolStream returns: the state becomes
\* next, nothing outside the hook is touched
streamCall(op, params, next) ==
  /\ stream' = next
  /\ UNCHANGED <<transportVars, clientVars, hook, tool, subscribed, hookMounted>>
  /\ last' = Step(op, Null, params, "", Null, <<>>)

\* part_001:81-90
streamHandleToolInputPartial(params) ==
  streamCall("handleToolInputPartial", params, streamToolInputPartial(stream, params))

\* part_001:92-101
streamHandleToolInput(params) ==
  streamCall("handleToolInput", params, streamToolInput(stream, params))

\* part_001:103-111
streamHandleToolResult(params) ==
  streamCall("handleToolResult", params, streamToolResult(stream, params))

\* part_001:113-119
handleTeardown == streamCall("handleTeardown", NoData, streamTeardown(stream))

\* part_001:121-123
reset == streamCall("reset", NoData, initialState)

-----------------------------------------------------------------------------
(* The environment of the transport: what other windows may post to it *)

ResponseIds == {McpId(n) : n \in 1..MaxRequests} \cup {HostId(1)}

\* envelopes that are not responses, and data that is no envelope
OtherInbound ==
  {Request(HostId(1), INITIALIZE),
   Notification(TOOL_INPUT),
   [jsonrpc |-> "1.0", id |-> McpId(1), result |-> OkResult],
   [primitive |-> "null"]}

InboundData ==
  {Success(id, OkResult) : id \in ResponseIds}
    \cup {ErrorResponse(id, InternalError, "failed") : id \in ResponseIds}
    \cup OtherInbound \cup {[jsonrpc |-> "2.0"]}

\* the same with one kind of response
EndpointInbound == {Success(id, OkResult) : id \in ResponseIds} \cup OtherInbound

\* what other windows may post to the host's window
HostResponseIds == {HostId(n) : n \in 1..MaxRequests} \cup {McpId(1)}

HostInboundData ==
  {Success(id, OkResult) : id \in HostResponseIds}
    \cup {ErrorResponse(id, InternalError, "failed") : id \in HostResponseIds}
    \cup {Request(McpId(1), m) : m \in {OPEN_LINK, MESSAGE, TOOLS_CALL, "x/unknown"}}
    \cup {Notification(INITIALIZED), Notification(SIZE_CHANGE),
          [jsonrpc |-> "2.0", id |-> McpId(2), method |-> OPEN_LINK],
          [jsonrpc |-> "2.0"],
          [jsonrpc |-> "1.0", id |-> HostId(1), result |-> OkResult],
          [primitive |-> "null"]}

\* a smaller choice: the replies to the handshake, one request, the
\* notification that completes the handshake, and data that is no envelope
HostEndpointInbound ==
  {Success(id, OkResult) : id \in HostResponseIds}
    \cup {ErrorResponse(HostId(1), InternalError, "failed"),
          Request(McpId(1), OPEN_LINK),
          Notification(INITIALIZED),
          [jsonrpc |-> "1.0", id |-> HostId(1), result |-> OkResult],
          [primitive |-> "null"]}

\* the behaviours the callback of data's method may show
BehavioursFor(data) ==
  IF MethodOf(data) \in {MESSAGE, TOOLS_CALL} THEN AsyncBehaviours
  ELSE IF MethodOf(data) \in {INITIALIZED, SIZE_CHANGE, OPEN_LINK} THEN SyncBehaviours
  ELSE {"absent"}

-----------------------------------------------------------------------------
(* Specification of the transport alone *)

TransportInit ==
  /\ started = FALSE
  /\ messageHandler = Null
  /\ listeners = 0
  /\ learnedOrigin = Null
  /\ pendingRequests = {}
  /\ nextRequestId = 0
  /\ timers = {}
  /\ promises = <<>>
  /\ removals = <<>>

HostInit ==
  /\ hostPending = {}
  /\ hostNextRequestId = 0
  /\ targetOrigin = Wildcard
  /\ hostTimers = {}
  /\ hostPromises = <<>>
  /\ hostRemovals = <<>>
  /\ hostClosure = <<>>
  /\ isInitialized = FALSE
  /\ rendered = FALSE
  /\ hostMounted = TRUE
  /\ initializeRetries = 0
  /\ initializeTimer = Null
  /\ retryTimers = {}
  /\ iframeSize = NullObj
  /\ hostTasks = {}

ClientInit ==
  /\ clientState = ClientInitialState
  /\ autoAcknowledge = TRUE
  /\ readyPosted = FALSE

\* nothing is in flight
WireInit ==
  /\ toApp = <<>>
  /\ toHost = <<>>

HookInit ==
  /\ hook = HookInitialState
  /\ tool = ToolInitialState
  /\ subscribed = FALSE
  /\ hookMounted = FALSE
  /\ stream = initialState

\* the state after construction with the default options
Init ==
  /\ TransportInit
  /\ HostInit
  /\ ClientInit
  /\ HookInit
  /\ WireInit
  /\ last = Step("init", Null, NoData, "", Null, <<>>)

notTransport == <<hostVars, clientVars, hookVars, wireVars>>
notHost == <<transportVars, clientVars, hookVars, wireVars>>
notClient == <<transportVars, hostVars, hookVars, wireVars>>
notHook == <<transportVars, hostVars, clientVars, wireVars>>
\* what a step of the frame's side leaves alone when no queue is modelled
notApp == <<hostVars, wireVars>>

TransportStart == (\E h \in Handlers : start(h)) /\ UNCHANGED notTransport
TransportStop == stop /\ UNCHANGED notTransport
TransportSendRequest == (\E m \in RequestMethods : sendRequest(m)) /\ UNCHANGED notTransport
TransportTimeout == (\E id \in timers : requestTimeout(id)) /\ UNCHANGED notTransport
TransportReceive ==
  (\E data \in InboundData, origin \in {"https://host.example", ""} :
     handleMessage(data, origin))
    /\ UNCHANGED notTransport

NextTransport ==
  \/ TransportStart
  \/ TransportStop
  \/ TransportSendRequest
  \/ TransportTimeout
  \/ TransportReceive

SpecTransport == Init /\ [][NextTransport]_vars

\* the same where timers fire: the callback of an armed timer runs unless the
\* timer is cleared first
TimerFires(id) == requestTimeout(id) /\ UNCHANGED notTransport

\* the replies a request may get
TimersInbound ==
  {Success(McpId(n), OkResult) : n \in 1..MaxRequests}
    \cup {ErrorResponse(McpId(1), InternalError, "failed")}

TimersStart == start("handlerA") /\ UNCHANGED notTransport
TimersSendRequest == sendRequest(MESSAGE) /\ UNCHANGED notTransport
TimersReceive ==
  (\E data \in TimersInbound : handleMessage(data, "https://host.example"))
    /\ UNCHANGED notTransport

NextTimers ==
  \/ TimersStart
  \/ TransportStop
  \/ TimersSendRequest
  \/ TransportTimeout
  \/ TimersReceive

SpecTransportTimers ==
  /\ Init
  /\ [][NextTimers]_vars
  /\ \A n \in 1..MaxRequests : WF_vars(TimerFires(McpId(n)))

-----------------------------------------------------------------------------
(* Specification of the host component alone *)

HostLoad ==
  /\ hostNextRequestId < MaxRequests
  /\ handleIframeLoad
  /\ UNCHANGED notHost
HostRetry ==
  /\ hostNextRequestId < MaxRequests
  /\ \E t \in retryTimers : hostRetry(t)
  /\ UNCHANGED notHost
HostTimeout == (\E id \in hostTimers : hostRequestTimeout(id)) /\ UNCHANGED notHost
HostReceive ==
  (\E data \in HostInboundData, origin \in EventOrigins :
     \E cb \in BehavioursFor(data) : hostHandleMessage(data, origin, cb))
    /\ UNCHANGED notHost
HostResume ==
  (\E t \in hostTasks, outcome \in {"resolves", "rejects"} : hostResume(t, outcome))
    /\ UNCHANGED notHost
HostCommit == hostCommit /\ UNCHANGED notHost
HostUnmount == hostUnmount /\ UNCHANGED notHost

NextHost ==
  \/ HostLoad
  \/ HostRetry
  \/ HostTimeout
  \/ HostReceive
  \/ HostResume
  \/ HostCommit
  \/ HostUnmount

SpecHost == Init /\ [][NextHost]_vars

-----------------------------------------------------------------------------
(* Specification of an app: the client useMcpApp creates, and the hook *)

ToolRef == [name |-> "t"]
ArgumentValues ==
  {[a |-> 1], [kind |-> "botdojo-tool-progress", progress |-> 50], EmptyString}
ResultValues == {[text |-> "done"], NullObj, EmptyString}
InitializeParams ==
  {[appInfo |-> [name |-> "host"], hostCapabilities |-> [tools |-> TRUE],
    hostContext |-> [theme |-> "dark"]],
   [appInfo |-> [name |-> "other"],
    hostContext |-> [theme |-> "light", toolInfo |-> [tool |-> [name |-> "u"]]]]}

AppInbound ==
  {RequestWith(HostId(1), INITIALIZE, p) : p \in InitializeParams}
    \cup {[jsonrpc |-> "2.0", id |-> HostId(2), method |-> INITIALIZE]}
    \cup {NotificationWith(TOOL_INPUT_PARTIAL, [tool |-> ToolRef, arguments |-> a]) :
            a \in ArgumentValues}
    \cup {NotificationWith(TOOL_INPUT, [tool |-> ToolRef, arguments |-> a]) :
            a \in ArgumentValues}
    \cup {NotificationWith(TOOL_RESULT, [tool |-> ToolRef, result |-> r]) :
            r \in ResultValues}
    \cup {NotificationWith(HOST_CONTEXT_CHANGED, [locale |-> "en"]),
          Request(HostId(1), RESOURCE_TEARDOWN),
          Request(HostId(1), "x/unknown"),
          Success(McpId(1), OkResult)}

\* part_002:128-135   useMcpApp's first render constructs the client and starts
\* it at once; the handlers are registered later, in the effect
InitApp ==
  /\ started = TRUE
  /\ messageHandler = ClientHandler
  /\ listeners = 1
  /\ learnedOrigin = Null
  /\ pendingRequests = {}
  /\ nextRequestId = 0
  /\ timers = {}
  /\ promises = <<>>
  /\ removals = <<>>
  /\ HostInit
  /\ clientState = ClientInitialState
  /\ autoAcknowledge = TRUE
  /\ readyPosted = TRUE
  /\ HookInit
  /\ WireInit
  /\ last = Step("init", Null, NoData, "", ClientHandler,
                 send(Notification(CLIENT_READY)))

AppReceive ==
  (\E data \in AppInbound : clientReceive(data, "https://host.example"))
    /\ UNCHANGED notApp
AppMount == hookMount /\ UNCHANGED notApp
AppUnmount == hookUnmount /\ UNCHANGED notApp

NextApp ==
  \/ AppReceive
  \/ AppMount
  \/ AppUnmount

SpecApp == InitApp /\ [][NextApp]_vars

-----------------------------------------------------------------------------
(* Specification of a client used directly: constructed with either value   *)
(* of the autoAcknowledge option, started and stopped by its owner, with    *)
(* requests of its own in flight and a hook that may mount and unmount      *)

MalformedInbound ==
  {[jsonrpc |-> "2.0"],
   [jsonrpc |-> "1.0", id |-> HostId(1), method |-> INITIALIZE,
    params |-> [appInfo |-> [name |-> "host"]]],
   [jsonrpc |-> "1.0", id |-> McpId(1), result |-> OkResult],
   [primitive |-> "null"]}

ClientInbound ==
  {RequestWith(HostId(1), INITIALIZE, [appInfo |-> [name |-> "host"]]),
   NotificationWith(INITIALIZE, [appInfo |-> [name |-> "other"],
                                 hostContext |-> [theme |-> "light"]]),
   [jsonrpc |-> "2.0", id |-> HostId(2), method |-> INITIALIZE],
   NotificationWith(TOOL_INPUT_PARTIAL, [tool |-> ToolRef, arguments |-> [a |-> 1]]),
   Success(McpId(1), OkResult)}
    \cup MalformedInbound

InitClient ==
  /\ TransportInit
  /\ HostInit
  /\ clientState = ClientInitialState
  /\ autoAcknowledge \in BOOLEAN
  /\ readyPosted = FALSE
  /\ HookInit
  /\ WireInit
  /\ last = Step("init", Null, NoData, "", Null, <<>>)

ClientStart == clientStart /\ UNCHANGED notApp
ClientStop == clientStop /\ UNCHANGED notApp
\* the events: each of the data from the host's window, two of them also
\* from a sender whose origin is the empty string
ClientEvents ==
  (ClientInbound \X {"https://host.example"})
    \cup ({[jsonrpc |-> "2.0"],
           RequestWith(HostId(1), INITIALIZE, [appInfo |-> [name |-> "host"]])} \X {""})

ClientReceive ==
  (\E event \in ClientEvents : clientReceive(event[1], event[2]))
    /\ UNCHANGED notApp

\* tsup.config.ts:640-650   McpAppClient.sendMessage: a ui/message request
MaxClientRequests == 1
ClientSendRequest ==
  /\ nextRequestId < MaxClientRequests
  /\ sendRequest(MESSAGE)
  /\ UNCHANGED notTransport

NextClient ==
  \/ ClientStart
  \/ ClientStop
  \/ ClientReceive
  \/ AppMount
  \/ AppUnmount
  \/ ClientSendRequest
  \/ TransportTimeout

SpecClient == InitClient /\ [][NextClient]_vars

-----------------------------------------------------------------------------
(* Specification of the two endpoints, one at a time.  The transport and    *)
(* the host component share no state (they meet only through the envelopes  *)
(* the environment delivers), so the runs of either one next to an idle     *)
(* other show everything a property of one endpoint can depend on.          *)

EndpointStart == start("handlerA") /\ UNCHANGED notTransport
EndpointSendRequest == sendRequest(MESSAGE) /\ UNCHANGED notTransport
EndpointReceive ==
  (\E data \in EndpointInbound, origin \in EventOrigins : handleMessage(data, origin))
    /\ UNCHANGED notTransport
EndpointHostReceive ==
  (\E data \in HostEndpointInbound, origin \in EventOrigins :
     hostHandleMessage(data, origin, "returns"))
    /\ UNCHANGED notHost

NextEndpoints ==
  \/ HostInit /\ EndpointStart
  \/ HostInit /\ TransportStop
  \/ HostInit /\ EndpointSendRequest
  \/ HostInit /\ TransportTimeout
  \/ HostInit /\ EndpointReceive
  \/ TransportInit /\ HostLoad
  \/ TransportInit /\ HostRetry
  \/ TransportInit /\ HostTimeout
  \/ TransportInit /\ EndpointHostReceive
  \/ TransportInit /\ HostCommit
  \/ TransportInit /\ HostUnmount

SpecEndpoints == Init /\ [][NextEndpoints]_vars

-----------------------------------------------------------------------------
(* Specification of one handshake of the host that is never completed: the  *)
(* frame loads once, no initialized notification arrives, the attempts are  *)
(* rejected by their timeouts or by Error replies, and unrelated envelopes  *)
(* arrive in between                                                        *)

MaxAttempts == 7

HandshakeInbound ==
  {ErrorResponse(HostId(n), InternalError, "failed") : n \in 1..MaxAttempts}
    \cup {Request(McpId(1), OPEN_LINK),
          NotificationWith(SIZE_CHANGE, [width |-> 100, height |-> 50]),
          [jsonrpc |-> "2.0"]}

HandshakeLoad ==
  /\ hostNextRequestId = 0
  /\ handleIframeLoad
  /\ UNCHANGED notHost
HandshakeRetry ==
  /\ hostNextRequestId < MaxAttempts
  /\ \E t \in retryTimers : hostRetry(t)
  /\ UNCHANGED notHost
HandshakeReceive ==
  (\E data \in HandshakeInbound, origin \in {"https://app.example", ""} :
     hostHandleMessage(data, origin, "returns"))
    /\ UNCHANGED notHost

NextHandshake ==
  \/ HandshakeLoad
  \/ HandshakeRetry
  \/ HostTimeout
  \/ HandshakeReceive
  \/ HostUnmount

SpecHandshake == Init /\ [][NextHandshake]_vars

-----------------------------------------------------------------------------
(* Specification of the dispatch of a mounted host: requests and            *)
(* notifications of the frame arrive, each callback may be absent, return,  *)
(* throw or stay pending, and a pending one resolves or rejects later.      *)
(* (Once the component has unmounted no envelope is handled and send posts  *)
(* nothing: SpecHost and SpecEndpoints cover that.)                         *)

DispatchInbound ==
  {RequestWith(McpId(n), TOOLS_CALL, [name |-> "t"]) : n \in 1..2}
    \cup {[jsonrpc |-> "2.0", id |-> McpId(1), method |-> TOOLS_CALL],
          NotificationWith(TOOLS_CALL, [name |-> "t"]),
          RequestWith(McpId(1), MESSAGE, [content |-> "text"]),
          NotificationWith(MESSAGE, [content |-> "text"]),
          RequestWith(McpId(1), OPEN_LINK, [url |-> "https://example.org"]),
          [jsonrpc |-> "2.0", id |-> McpId(2), method |-> OPEN_LINK],
          RequestWith(McpId(2), OPEN_LINK, NullObj),
          NotificationWith(SIZE_CHANGE, [width |-> 100, height |-> 50]),
          Notification(INITIALIZED),
          Request(McpId(1), "x/unknown")}

DispatchReceive ==
  (\E data \in DispatchInbound :
     \E cb \in BehavioursFor(data) : hostHandleMessage(data, "https://app.example", cb))
    /\ UNCHANGED notHost

NextDispatch ==
  \/ DispatchReceive
  \/ HostResume
  \/ HostCommit

SpecDispatch == Init /\ [][NextDispatch]_vars

-----------------------------------------------------------------------------
(* Specification of a tool stream: the client of useMcpApp receives the     *)
(* notifications of one tool call, whose partial inputs are argument chunks *)
(* and progress payloads, before and after the hook has subscribed          *)

ProgressValues ==
  {[kind |-> "botdojo-tool-progress", progress |-> 50],
   [_botdojoProgress |-> TRUE, step |-> 1]}
ChunkValues == {[a |-> 1], [a |-> 2, b |-> 3], [progress |-> 50]}

StreamInbound ==
  {NotificationWith(TOOL_INPUT_PARTIAL, [tool |-> ToolRef, arguments |-> a]) :
     a \in ProgressValues \cup ChunkValues}
    \cup {NotificationWith(TOOL_INPUT, [tool |-> ToolRef, arguments |-> a]) :
            a \in {[a |-> 1], [b |-> 4]}}
    \cup {NotificationWith(TOOL_RESULT, [tool |-> ToolRef, result |-> r]) :
            r \in {[text |-> "done"], NullObj, EmptyString}}
    \cup {NotificationWith(TOOL_RESULT, [tool |-> ToolRef]),
          Request(HostId(1), RESOURCE_TEARDOWN)}

StreamReceive ==
  (\E data \in StreamInbound : clientReceive(data, "https://host.example"))
    /\ UNCHANGED notApp

NextStream ==
  \/ StreamReceive
  \/ AppMount

SpecStream == InitApp /\ [][NextStream]_vars

-----------------------------------------------------------------------------
(* Specification of a tool stream with placeholders: between the chunks,    *)
(* the final arguments and the result of a tool call, notifications arrive  *)
(* whose arguments are no object                                            *)

\* arguments that are no object: '', null and a number
PlaceholderValues == {EmptyString, NullObj, [number |-> 7]}

PlaceholderInbound ==
  {NotificationWith(TOOL_INPUT_PARTIAL, [tool |-> ToolRef, arguments |-> a]) :
     a \in PlaceholderValues \cup {[a |-> 2, b |-> 3]}}
    \cup {NotificationWith(TOOL_INPUT, [tool |-> ToolRef, arguments |-> NullObj]),
          NotificationWith(TOOL_INPUT, [tool |-> ToolRef]),
          NotificationWith(TOOL_INPUT, [tool |-> ToolRef, arguments |-> [a |-> 1]]),
          NotificationWith(TOOL_RESULT, [tool |-> ToolRef, result |-> [text |-> "done"]])}

PlaceholderReceive ==
  (\E data \in PlaceholderInbound : clientReceive(data, "https://host.example"))
    /\ UNCHANGED notApp

NextPlaceholders ==
  \/ PlaceholderReceive
  \/ AppMount

SpecPlaceholders == InitApp /\ [][NextPlaceholders]_vars

-----------------------------------------------------------------------------
(* Specification of the two tool states over a session: the client of       *)
(* useMcpApp receives every kind of protocol event while the hook mounts    *)
(* and unmounts, and a caller drives useMcpToolStream by hand               *)

ResetInbound ==
  {RequestWith(HostId(1), INITIALIZE, p) : p \in InitializeParams}
    \cup {NotificationWith(TOOL_RESULT, [tool |-> ToolRef, result |-> r]) :
            r \in {[text |-> "done"], NullObj}}
    \cup {NotificationWith(TOOL_INPUT_PARTIAL, [tool |-> ToolRef, arguments |-> [a |-> 1]]),
          NotificationWith(TOOL_INPUT, [tool |-> ToolRef, arguments |-> [a |-> 1]]),
          NotificationWith(HOST_CONTEXT_CHANGED, [locale |-> "en"]),
          NotificationWith(TOOL_CANCELLED, [tool |-> ToolRef]),
          Request(HostId(1), RESOURCE_TEARDOWN)}

StreamParams == {[tool |-> ToolRef, arguments |-> [a |-> 1]]}
ResultParams == {[tool |-> ToolRef, result |-> [text |-> "done"]]}

ResetReceive ==
  (\E data \in ResetInbound : clientReceive(data, "https://host.example"))
    /\ UNCHANGED notApp
StreamPartial ==
  (\E params \in StreamParams : streamHandleToolInputPartial(params)) /\ UNCHANGED notApp
StreamInput ==
  (\E params \in StreamParams : streamHandleToolInput(params)) /\ UNCHANGED notApp
StreamResult ==
  (\E params \in ResultParams : streamHandleToolResult(params)) /\ UNCHANGED notApp
StreamTeardown == handleTeardown /\ UNCHANGED notApp
StreamReset == reset /\ UNCHANGED notApp

NextReset ==
  \/ ResetReceive
  \/ AppMount
  \/ AppUnmount
  \/ StreamPartial
  \/ StreamInput
  \/ StreamResult
  \/ StreamTeardown
  \/ StreamReset

SpecReset == InitApp /\ [][NextReset]_vars

-----------------------------------------------------------------------------
(* Specification of the reference for the catch-up sync: the effect of      *)
(* useMcpApp runs before the first envelope arrives, so the hook folds      *)
(* every event, next to the snapshot the client keeps of the same events    *)

CatchUpInbound ==
  {RequestWith(HostId(1), INITIALIZE, p) : p \in InitializeParams}
    \cup {NotificationWith(TOOL_INPUT_PARTIAL, [tool |-> ToolRef, arguments |-> a]) :
            a \in {[a |-> 1], [a |-> 2, b |-> 3]}}
    \cup {NotificationWith(TOOL_RESULT, [tool |-> ToolRef, result |-> r]) :
            r \in {[text |-> "done"], NullObj}}
    \cup {NotificationWith(TOOL_INPUT, [tool |-> ToolRef, arguments |-> [b |-> 4]])}

CatchUpReceive ==
  /\ subscribed
  /\ \E data \in CatchUpInbound : clientReceive(data, "https://host.example")
  /\ UNCHANGED notApp

NextCatchUp ==
  \/ AppMount
  \/ CatchUpReceive

SpecCatchUp == InitApp /\ [][NextCatchUp]_vars

-----------------------------------------------------------------------------
(* Specification of the two endpoints linked by their windows' event        *)
(* queues.  The host listens from the start and the frame loads once; the   *)
(* client attaches its listener at any time; an event dispatched in the     *)
(* frame before that reaches nobody.  Timers fire and events whose          *)
(* listener is attached are dispatched: the fairness conditions.            *)

HostOrigin == "https://host.example"
AppOrigin == "https://app.example"

\* the envelopes of a step's posts, in the order of the postMessage calls
\* envelopes a page may have posted of its own accord and not yet delivered
MaxInFlight == 1

Envelopes(posts) == [i \in 1..Len(posts) |-> posts[i].msg]

frameSide == <<transportVars, clientVars, hookVars>>

\* tsup.config.ts:376-380   the frame's load event
LinkLoad ==
  /\ hostNextRequestId = 0
  /\ handleIframeLoad
  /\ toApp' = toApp \o Envelopes(last'.posts)
  /\ UNCHANGED <<frameSide, toHost>>

\* tsup.config.ts:272   a retry timer fires
LinkRetry ==
  /\ hostNextRequestId < MaxAttempts
  /\ \E t \in retryTimers : hostRetry(t)
  /\ toApp' = toApp \o Envelopes(last'.posts)
  /\ UNCHANGED <<frameSide, toHost>>

\* tsup.config.ts:582-587   the client attaches its listener and announces itself
LinkStart ==
  /\ ~started
  /\ clientStart
  /\ toHost' = toHost \o Envelopes(last'.posts)
  /\ UNCHANGED <<hostVars, toApp>>

\* the frame's window dispatches its next event while nobody listens
LinkLose ==
  /\ ~started
  /\ toApp # <<>>
  /\ toApp' = Tail(toApp)
  /\ UNCHANGED <<transportVars, hostVars, clientVars, hookVars, toHost, last>>

\* transport.ts:181-215   the frame's window dispatches its next event to
\* the client's listener
LinkDeliverApp ==
  /\ started
  /\ toApp # <<>>
  /\ clientReceive(Head(toApp), HostOrigin)
  /\ toApp' = Tail(toApp)
  /\ toHost' = toHost \o Envelopes(last'.posts)
  /\ UNCHANGED hostVars

\* tsup.config.ts:279-369   the host's window dispatches its next event
LinkDeliverHost ==
  /\ toHost # <<>>
  /\ hostHandleMessage(Head(toHost), AppOrigin, "returns")
  /\ toHost' = Tail(toHost)
  /\ toApp' = toApp \o Envelopes(last'.posts)
  /\ UNCHANGED frameSide

\* tsup.config.ts:376-380   a load event of the frame, the first or a later one
SessionLoad ==
  /\ hostNextRequestId < MaxRequests
  /\ handleIframeLoad
  /\ toApp' = toApp \o Envelopes(last'.posts)
  /\ UNCHANGED <<frameSide, toHost>>

\* tsup.config.ts:582-587   the app calls client.start(), also on a started
\* client, which announces itself again
SessionStart ==
  /\ started => Len(toHost) < MaxInFlight
  /\ clientStart
  /\ toHost' = toHost \o Envelopes(last'.posts)
  /\ UNCHANGED <<hostVars, toApp>>

\* tsup.config.ts:399-415   the host page calls a method of the ref
LinkRefCall ==
  /\ Len(toApp) < MaxInFlight
  /\ \/ sendToolInputPartial([tool |-> ToolRef, arguments |-> [a |-> 1]])
     \/ sendToolInput([tool |-> ToolRef, arguments |-> [a |-> 1]])
     \/ sendToolResult([tool |-> ToolRef, result |-> [text |-> "done"]])
     \/ sendHostContextChanged([locale |-> "en"])
     \/ sendResourceTeardown
  /\ toApp' = toApp \o Envelopes(last'.posts)
  /\ UNCHANGED <<frameSide, toHost>>

\* tsup.config.ts:646-692   the app calls a method of the client
LinkClientCall ==
  /\ Len(toHost) < MaxInFlight
  /\ nextRequestId < MaxClientRequests
  /\ \/ reportSize(100, 50)
     \/ clientSendNotification(SIZE_CHANGE, [width |-> 1, height |-> 2])
     \/ openLink("https://example.org")
     \/ sendMessage("text")
     \/ callTool("t", [a |-> 1])
  /\ toHost' = toHost \o Envelopes(last'.posts)
  /\ UNCHANGED <<hostVars, toApp>>

\* React commits the re-render the completed handshake asked for
LinkCommit == hostCommit /\ UNCHANGED <<frameSide, wireVars>>

NextLink ==
  \/ LinkLoad
  \/ LinkRetry
  \/ HostTimeout
  \/ LinkStart
  \/ LinkLose
  \/ LinkDeliverApp
  \/ LinkDeliverHost
  \/ LinkCommit

SpecLink ==
  /\ Init
  /\ [][NextLink]_vars
  /\ WF_vars(LinkCommit)
  /\ WF_vars(LinkLoad)
  /\ WF_vars(LinkRetry)
  /\ WF_vars(HostTimeout)
  /\ WF_vars(LinkDeliverApp)
  /\ WF_vars(LinkDeliverHost)

\* The two endpoints over a session: the frame may load again, the app may
\* call start() again, the host page calls the methods of the ref and the app
\* those of the client, whose requests may time out. The host's timers do not
\* fire within the session observed; SpecLink follows them
NextSession ==
  \/ SessionLoad
  \/ SessionStart
  \/ LinkLose
  \/ LinkDeliverApp
  \/ LinkDeliverHost
  \/ LinkCommit
  \/ LinkRefCall
  \/ LinkClientCall
  \/ TransportTimeout

SpecSession == Init /\ [][NextSession]_vars

-----------------------------------------------------------------------------
(* Specification of the two dispatchers, one at a time: the host's as in    *)
(* SpecDispatch next to a client that has received nothing, the client's    *)
(* next to a host that has received nothing.  Each is handed requests and   *)
(* notifications of the methods it has a case for and of one it has not.    *)

RepliesInbound ==
  {RequestWith(HostId(1), INITIALIZE, [appInfo |-> [name |-> "host"]]),
   NotificationWith(INITIALIZE, [appInfo |-> [name |-> "host"]]),
   Request(HostId(2), RESOURCE_TEARDOWN),
   Notification(RESOURCE_TEARDOWN),
   Request(HostId(3), "x/unknown"),
   Notification("x/unknown"),
   NotificationWith(TOOL_INPUT, [tool |-> ToolRef, arguments |-> [a |-> 1]]),
   RequestWith(HostId(4), TOOL_RESULT, [tool |-> ToolRef, result |-> [text |-> "done"]]),
   NotificationWith(HOST_CONTEXT_CHANGED, [locale |-> "en"])}

\* the client has received no envelope yet
ClientIdle == learnedOrigin = Null /\ clientState = ClientInitialState

RepliesReceive ==
  (\E data \in RepliesInbound : clientReceive(data, "https://host.example"))
    /\ UNCHANGED notApp

NextReplies ==
  \/ ClientIdle /\ DispatchReceive
  \/ ClientIdle /\ HostResume
  \/ HostInit /\ RepliesReceive
  \/ HostInit /\ AppMount

SpecReplies == InitApp /\ [][NextReplies]_vars

-----------------------------------------------------------------------------
(* Specification of the request ids of both endpoints together *)

NextIds ==
  \/ EndpointStart
  \/ TransportStop
  \/ EndpointSendRequest
  \/ TransportTimeout
  \/ HostLoad
  \/ HostRetry
  \/ HostTimeout
  \/ HostUnmount

SpecIds == Init /\ [][NextIds]_vars

-----------------------------------------------------------------------------
(* Properties of the transport, checked under SpecTransport *)

IsSettled(p) == p.state # "pending"

ResponseFor(step) ==
  step.op = "handleMessage" /\ IsJsonRpc(step.data) /\ IsResponse(step.data)

\* Every promise is either pending, with its entry in the table and its timer
\* armed, or settled by one call of resolve/reject that took the entry out
SettledOnceInv ==
  \A id \in DOMAIN promises :
    LET p == promises[id] IN
      /\ p.calls <= 1
      /\ removals[id] <= 1
      /\ p.calls = removals[id]
      /\ IsSettled(p) <=> p.calls = 1
      /\ IsSettled(p) <=> id \notin pendingRequests
      /\ id \in timers <=> id \in pendingRequests
      /\ \/ p.state = "pending" /\ p.by = "none"
         \/ p.state = "fulfilled" /\ p.by = "response"
         \/ p.state = "rejected" /\ p.by \in {"error", "timeout", "stop"}

\* A settled promise is never touched again, and a response for a settled id
\* changes nothing in the transport
SettledStays ==
  /\ \A id \in DOMAIN promises :
       IsSettled(promises[id]) =>
         /\ promises'[id] = promises[id]
         /\ removals'[id] = removals[id]
         /\ id \notin timers'
  /\ (ResponseFor(last') /\ last'.data.id \in DOMAIN promises
        /\ IsSettled(promises[last'.data.id]))
       => UNCHANGED <<pendingRequests, timers, promises, removals>>

\* C1: the promise of every sendRequest call is settled at most once, by one
\* of {Success, Error, timeout, stop()}, and until then its entry is in the
\* table with its timer armed; once the timeout has fired a late response for
\* the id is a no-op, once the response has arrived the timer is cancelled and
\* the timeout never rejects; the id leaves the pending table at most once.
C1_SettledExactlyOnce == []SettledOnceInv /\ [][SettledStays]_vars

\* a response arrives for an id whose request already timed out
C1_LateResponse ==
  /\ ResponseFor(last)
  /\ last.data.id \in DOMAIN promises
  /\ promises[last.data.id].by = "timeout"
  /\ \E id \in DOMAIN promises : promises[id].by = "response"

\* C6: when a request's timeout fires, its promise is rejected with an Error
\* whose message is "Request timeout: <method>" and its entry is removed from
\* the pending table, so the table is empty when no other request is pending.
C6_TimeoutRejects ==
  last.op = "requestTimeout" =>
    LET p == promises[last.id] IN
      /\ p.state = "rejected"
      /\ p.by = "timeout"
      /\ p.value = [name |-> "Error", message |-> "Request timeout: " \o p.method]
      /\ p.method = MESSAGE => p.value.message = "Request timeout: ui/message"
      /\ last.id \notin pendingRequests
      /\ (\A id \in DOMAIN promises \ {last.id} : IsSettled(promises[id]))
           => pendingRequests = {}

\* the timeout of a ui/message request has fired and it was the only one pending
C6_TimedOut ==
  /\ last.op = "requestTimeout"
  /\ promises[last.id].method = MESSAGE
  /\ pendingRequests = {}
  /\ Cardinality(DOMAIN promises) > 1

\* C7 as stated: after stop(), whatever the state of the transport, the
\* listener is detached, no request is pending and the table is empty.
C7_StopRejectsAll ==
  last.op = "stop" =>
    /\ listeners = 0
    /\ pendingRequests = {}
    /\ \A id \in DOMAIN promises : IsSettled(promises[id])

StopStep ==
  last'.op = "stop" =>
    IF started
      THEN /\ listeners = 1 /\ listeners' = 0
           /\ pendingRequests' = {}
           /\ timers' = {}
           /\ \A id \in DOMAIN promises :
                promises'[id] =
                  IF id \in pendingRequests
                    THEN [state |-> "rejected", by |-> "stop",
                          value |-> [name |-> "Error", message |-> "Transport stopped"],
                          calls |-> 1, method |-> promises[id].method]
                    ELSE promises[id]
      ELSE UNCHANGED transportVars

StoppedStays ==
  \A id \in DOMAIN promises :
    promises[id].by = "stop" => promises'[id] = promises[id] /\ id \notin timers'

\* What stop() does: on a started transport it detaches the listener, rejects
\* every pending request with Error('Transport stopped'), cancels their timers
\* and leaves the table empty, and none of them is rejected again by its
\* timeout; on a transport that is not started it changes nothing.
StopOfStarted == [][StopStep /\ StoppedStays]_vars

\* stop() was called on a transport that is not started while a request was
\* pending: the request is pending still and its timer is armed
C7_StopLeavesPending ==
  /\ last.op = "stop"
  /\ ~started
  /\ listeners = 0
  /\ pendingRequests # {}
  /\ timers = pendingRequests
  /\ \A id \in pendingRequests : promises[id].state = "pending"

\* C8: start(handler) on a started transport changes nothing: the listener
\* count stays one and the first handler stays in force.
C8_StartIdempotent ==
  /\ [](listeners = IF started THEN 1 ELSE 0)
  /\ [](started <=> messageHandler # Null)
  /\ [][(last'.op = "start" /\ started) => UNCHANGED transportVars]_vars

\* start() was called with another handler on a started transport
C8_StartedTwice ==
  /\ last.op = "start"
  /\ started
  /\ last.handler # messageHandler
  /\ listeners = 1

-----------------------------------------------------------------------------
(* Properties of both endpoints, checked under SpecEndpoints *)

TransportEnvelope(step) == step.op = "handleMessage" /\ IsJsonRpc(step.data)
HostEnvelope(step) == step.op = "hostHandleMessage" /\ IsJsonRpc(step.data)

\* what handleMessage does with a valid envelope, whatever its origin
TransportProcesses ==
  TransportEnvelope(last') =>
    LET data == last'.data IN
      IF IsResponse(data)
        THEN data.id \in pendingRequests =>
               /\ data.id \notin pendingRequests'
               /\ IsSettled(promises'[data.id])
               /\ promises'[data.id].by \in {"response", "error"}
        ELSE last'.handler = messageHandler

HostProcesses ==
  HostEnvelope(last') =>
    LET data == last'.data IN
      IF IsResponse(data)
        THEN data.id \in hostPending =>
               /\ data.id \notin hostPending'
               /\ IsSettled(hostPromises'[data.id])
               /\ hostPromises'[data.id].by \in {"response", "error"}
        ELSE MethodOf(data) # "" => last'.handler = "handleAsync"

\* C4: a valid envelope is processed whatever its sender origin, also after
\* an origin was learned and when it comes from another origin: a response
\* settles the pending call of its id, a request or notification goes on to
\* the handler (transport) or the dispatch (host).
C4_NoReceiveFilter == [][TransportProcesses /\ HostProcesses]_vars

\* a response from an origin other than the learned one settled a pending call
C4_SettledFromOtherOrigin ==
  /\ TransportEnvelope(last)
  /\ learnedOrigin # Null
  /\ last.origin \notin {"", learnedOrigin}
  /\ last.id # Null
  /\ promises[last.id].by = "response"

TransportOriginStep ==
  /\ learnedOrigin # Null => learnedOrigin' = learnedOrigin
  /\ (learnedOrigin = Null /\ learnedOrigin' # Null) =>
       TransportEnvelope(last') /\ last'.origin # "" /\ learnedOrigin' = last'.origin
  /\ (TransportEnvelope(last') /\ last'.origin # "") => learnedOrigin' # Null

HostOriginStep ==
  /\ targetOrigin # Wildcard => targetOrigin' = targetOrigin
  /\ (targetOrigin = Wildcard /\ targetOrigin' # Wildcard) =>
       HostEnvelope(last') /\ last'.origin # "" /\ targetOrigin' = last'.origin
  /\ (HostEnvelope(last') /\ last'.origin # "") => targetOrigin' # Wildcard

\* C5: the learned origin is set by the first valid envelope received with a
\* non-empty origin, to that origin, and is never changed or unset after that,
\* by no envelope and by no start() or stop(); likewise the host's target.
C5_OriginLearnedOnce == [][TransportOriginStep /\ HostOriginStep]_vars

\* a request arrives from another origin than the learned one, after a stop()
\* and a start(), and the learned origin is still the first one
C5_OtherOriginLater ==
  /\ TransportEnvelope(last)
  /\ ~IsResponse(last.data)
  /\ learnedOrigin # Null
  /\ last.origin \notin {"", learnedOrigin}
  /\ \E id \in DOMAIN promises : promises[id].by = "stop"

TransportIgnoresUnmatched ==
  (TransportEnvelope(last') /\ IsResponse(last'.data)
     /\ last'.data.id \notin pendingRequests)
    => /\ UNCHANGED <<pendingRequests, timers, promises, removals>>
       /\ last'.handler = Null
       /\ last'.posts = <<>>

HostIgnoresUnmatched ==
  (HostEnvelope(last') /\ IsResponse(last'.data) /\ last'.data.id \notin hostPending)
    => /\ UNCHANGED <<hostPending, hostTimers, hostPromises, hostRemovals, hostTasks,
                      isInitialized, initializeRetries, initializeTimer, retryTimers>>
       /\ last'.handler = Null
       /\ last'.posts = <<>>
       /\ last'.callbacks = {}

\* C9: a Success or Error whose id is not in the pending table settles
\* nothing, leaves the table and the timers as they are and is not passed on
\* to the handler or the dispatch, on the transport and on the host.
C9_UnmatchedResponseIgnored ==
  [][TransportIgnoresUnmatched /\ HostIgnoresUnmatched]_vars

\* a response with an id that was never issued arrives while a call is pending
C9_UnknownIdArrived ==
  /\ TransportEnvelope(last)
  /\ IsResponse(last.data)
  /\ last.data.id \notin DOMAIN promises
  /\ pendingRequests # {}
  /\ messageHandler # Null

-----------------------------------------------------------------------------
(* Properties of the request ids, checked under SpecIds *)

IdsInv ==
  /\ DOMAIN promises = {McpId(n) : n \in 1..nextRequestId}
  /\ Cardinality(DOMAIN promises) = nextRequestId
  /\ DOMAIN hostPromises = {HostId(n) : n \in 1..hostNextRequestId}
  /\ Cardinality(DOMAIN hostPromises) = hostNextRequestId
  /\ DOMAIN promises \cap DOMAIN hostPromises = {}

IdsStep ==
  /\ nextRequestId' >= nextRequestId
  /\ hostNextRequestId' >= hostNextRequestId
  /\ last'.op = "sendRequest" =>
       /\ nextRequestId' = nextRequestId + 1
       /\ last'.id \notin DOMAIN promises
       /\ last'.posts[1].msg.id = last'.id
  /\ last'.op \in {"handleIframeLoad", "hostRetry"} =>
       /\ hostNextRequestId' = hostNextRequestId + 1
       /\ last'.id \notin DOMAIN hostPromises
       /\ last'.posts[1].msg.id = last'.id

\* C10: each side takes its request ids from a counter that only grows, so
\* no id is issued twice by a side, also across stop() and start(); the ids
\* of the transport ('mcp-N') and of the host ('host-N') never coincide.
C10_IdsUnique == []IdsInv /\ [][IdsStep]_vars

\* the transport issues its second id after a stop() and a start(), the host
\* has issued ids too
C10_IssuedAcrossRestart ==
  /\ last.op = "sendRequest"
  /\ last.id = "mcp-2"
  /\ promises["mcp-1"].by = "stop"
  /\ started
  /\ "host-1" \in DOMAIN hostPromises

-----------------------------------------------------------------------------
(* Properties of the client and of the hook, checked under SpecApp *)

ToolEventDelivered(step) ==
  /\ step.op = "clientReceive"
  /\ subscribed
  /\ step.callbacks \cap {"toolInputPartial", "toolInput"} # {}

CompleteStays ==
  (tool.status = "complete" /\ ToolEventDelivered(last')) =>
    /\ tool'.status = "complete"
    /\ tool'.isStreaming = tool.isStreaming
    /\ [tool' EXCEPT !.partialUpdate = tool.partialUpdate,
                     !.toolProgress = tool.toolProgress,
                     !.arguments = tool.arguments,
                     !.name = tool.name] = tool

\* C2: once the ToolState of useMcpApp has status 'complete', a toolInputPartial
\* or toolInput event leaves status and isStreaming as they are; it changes
\* nothing but partialUpdate, toolProgress, arguments and name.
C2_CompleteIsKept == [][CompleteStays]_vars

\* a toolInput event arrived after the result and set the arguments only
C2_InputAfterResult ==
  /\ last.op = "clientReceive"
  /\ "toolInput" \in last.callbacks
  /\ subscribed
  /\ tool.status = "complete"
  /\ tool.arguments = [a |-> 1]
  /\ tool.result = [text |-> "done"]

InitializeFields(st) ==
  [isInitialized |-> st.isInitialized, appInfo |-> st.appInfo,
   hostCapabilities |-> st.hostCapabilities, hostContext |-> st.hostContext]

InitializeDelivered(step) ==
  step.op = "clientReceive" /\ step.handler # Null /\ MethodOf(step.data) = INITIALIZE

\* after a ui/initialize the four fields are those of its params
InitializeOverwrites ==
  (InitializeDelivered(last) /\ "throws" \notin last.callbacks) =>
    InitializeFields(clientState) =
      [isInitialized |-> TRUE,
       appInfo |-> Field(last.data.params, "appInfo"),
       hostCapabilities |-> Field(last.data.params, "hostCapabilities"),
       hostContext |-> Field(last.data.params, "hostContext")]

\* the second and every later delivery in a row of the same ui/initialize
\* leaves the four fields as the first one left them
DuplicateInitialize ==
  (InitializeDelivered(last') /\ last'.repeat >= 2) =>
    InitializeFields(clientState') = InitializeFields(clientState)

\* C3: delivering the same ui/initialize to McpAppClient two or more times
\* leaves {appInfo, hostCapabilities, hostContext, isInitialized} as one
\* delivery leaves them: each delivery overwrites them with the params.
C3_InitializeIdempotent == []InitializeOverwrites /\ [][DuplicateInitialize]_vars

\* the same ui/initialize request was delivered three times in a row
C3_DeliveredThrice ==
  /\ InitializeDelivered(last)
  /\ last.repeat >= 3
  /\ clientState.isInitialized
  /\ clientState.hostContext = [theme |-> "dark"]
  /\ clientState.tool.isStreaming

-----------------------------------------------------------------------------
(* Properties of the client's receive path, checked under SpecClient *)

ClientEnvelope(step) == step.op = "clientReceive"

\* the event data does not carry the protocol-version marker
FailsMarker(data) == "jsonrpc" \notin DOMAIN data \/ data.jsonrpc # "2.0"

\* the data carries the marker and has the fields of no envelope kind
LacksFields(data) ==
  ~FailsMarker(data) /\ "id" \notin DOMAIN data /\ "method" \notin DOMAIN data

\* nothing was posted, no subscriber was called, no error was raised
Silent(step) == step.posts = <<>> /\ step.callbacks = {} /\ step.effects = <<>>

\* the rule of transport.ts:190-193 for the step's sender origin
OriginLearnedFrom(step) ==
  learnedOrigin' = IF learnedOrigin = Null /\ step.origin # ""
                     THEN step.origin ELSE learnedOrigin

\* C11 as stated: data that fails the marker check, and data that carries the
\* marker but neither id nor method, is dropped silently: no state of the
\* transport, the client or the subscriber changes (the learned origin
\* included), nothing is posted, no subscriber is called, no error is raised
C11_MalformedChangesNothing ==
  [][(ClientEnvelope(last') /\ (FailsMarker(last'.data) \/ LacksFields(last'.data)))
       => (UNCHANGED <<transportVars, clientVars, hookVars>> /\ Silent(last'))]_vars

\* C11 amended: data that fails the marker check changes nothing at all; data
\* that carries the marker but neither id nor method changes nothing except
\* that the transport learns the sender origin from it when none is learned
\* and the origin is not empty; in both cases nothing is posted, no
\* subscriber is called and no error is raised
C11_MalformedDropped ==
  [][ClientEnvelope(last') =>
       /\ FailsMarker(last'.data)
            => (UNCHANGED <<transportVars, clientVars, hookVars>> /\ Silent(last'))
       /\ LacksFields(last'.data)
            => /\ UNCHANGED <<started, messageHandler, listeners, pendingRequests,
                              nextRequestId, timers, promises, removals>>
               /\ UNCHANGED <<clientVars, hookVars>>
               /\ OriginLearnedFrom(last')
               /\ Silent(last')]_vars

\* an envelope of the wrong version arrived for a pending request while a
\* subscriber was registered, and the request is still pending
C11_WrongVersionForPending ==
  /\ ClientEnvelope(last)
  /\ FailsMarker(last.data)
  /\ "id" \in DOMAIN last.data
  /\ last.data.id \in pendingRequests
  /\ subscribed

\* the client handled a ui/initialize envelope whose params can be read
InitializeHandled(step) ==
  /\ ClientEnvelope(step)
  /\ step.handler = ClientHandler
  /\ MethodOf(step.data) = INITIALIZE
  /\ ~ThrowsOnRead(ParamsOf(step.data))

KindsOf(effects) == [i \in 1..Len(effects) |-> effects[i].kind]

\* the statements ui/initialize is to run, by kind, for this id and option
InitializeKinds(id, autoAck) ==
  <<"assign">> \o (IF id # Null THEN <<"post">> ELSE <<>>)
               \o (IF autoAck THEN <<"post">> ELSE <<>>)
               \o <<"emit", "emit">>

\* C12: on ui/initialize the client first overwrites the whole snapshot
\* {appInfo, hostCapabilities, hostContext} with the params and sets
\* isInitialized, then posts Success {ok: true} with the request id, then
\* posts the initialized notification exactly when autoAcknowledge is set,
\* then emits 'initialize' and after it 'initialized'; the state a subscriber
\* of 'initialize' reads has isInitialized = TRUE
C12_InitializeOrder ==
  InitializeHandled(last) =>
    LET e == last.effects
        n == Len(e)
        id == IdOf(last.data)
        params == last.data.params
        replies == IF id # Null THEN 1 ELSE 0
    IN /\ KindsOf(e) = InitializeKinds(id, autoAcknowledge)
       /\ e[1].state.isInitialized
       /\ e[1].state.appInfo = Field(params, "appInfo")
       /\ e[1].state.hostCapabilities = Field(params, "hostCapabilities")
       /\ e[1].state.hostContext = Field(params, "hostContext")
       /\ id # Null => e[2].msg = Success(id, OkResult)
       /\ autoAcknowledge => e[2 + replies].msg = Notification(INITIALIZED)
       /\ ~autoAcknowledge =>
            \A i \in 1..n : e[i].kind = "post" => MethodOf(e[i].msg) # INITIALIZED
       /\ e[n - 1].event.type = "initialize"
       /\ e[n].event.type = "initialized"
       /\ StateAfter(ClientInitialState, SubSeq(e, 1, n - 2)).isInitialized
       /\ clientState = e[1].state
       /\ subscribed => hook.isInitialized

\* a client without auto-acknowledge answered a ui/initialize request with
\* the Success reply alone, and the subscriber saw both events
C12_RepliedWithoutAcknowledge ==
  /\ InitializeHandled(last)
  /\ ~autoAcknowledge
  /\ IdOf(last.data) # Null
  /\ Len(last.posts) = 1
  /\ last.callbacks = {"initialize", "initialized"}
  /\ subscribed

ClientStarted(step) == step.op = "clientStart"

\* one call of start(): the listener is attached before anything is posted
\* (it stays attached when the client was started already), and exactly one
\* envelope is posted, the client-ready notification
StartStep ==
  ClientStarted(last') =>
    /\ KindsOf(last'.effects) = IF started THEN <<"post">> ELSE <<"listen", "post">>
    /\ last'.posts = <<[msg |-> Notification(CLIENT_READY),
                        target |-> OriginOf(learnedOrigin)]>>
    /\ started' /\ listeners' = 1 /\ messageHandler' = ClientHandler
    /\ readyPosted'
    /\ UNCHANGED <<learnedOrigin, pendingRequests, clientState, hookVars>>

\* a reply to ui/initialize is posted only after a client-ready notification
ReadyBeforeReply ==
  (InitializeHandled(last) /\ last.posts # <<>>) => readyPosted

\* C13: start() attaches the listener and then posts the client-ready
\* notification, in one step that waits for no inbound envelope; every reply
\* the client posts to ui/initialize comes after a client-ready notification
C13_ReadyOnStart == [][StartStep]_vars /\ []ReadyBeforeReply

\* the first thing that happened to a new client was start(): it listens and
\* has posted client-ready to the wildcard target, having received nothing
C13_StartedFirst ==
  /\ ClientStarted(last)
  /\ KindsOf(last.effects) = <<"listen", "post">>
  /\ learnedOrigin = Null
  /\ clientState = ClientInitialState
  /\ nextRequestId = 0
  /\ listeners = 1

-----------------------------------------------------------------------------
(* Properties of the host's handshake, checked under SpecEndpoints *)

\* the host dispatched the client's initialized notification
InitializedStep(step) ==
  /\ step.op = "hostHandleMessage"
  /\ step.handler = "handleAsync"
  /\ MethodOf(step.data) = INITIALIZED

\* the host matched a Success reply with a pending ui/initialize request
SuccessReplyStep(step) ==
  /\ step.op = "hostHandleMessage"
  /\ step.id # Null
  /\ "result" \in DOMAIN step.data

\* a ui/initialize request of the host was rejected, by its timeout or by
\* an Error reply
RejectedStep(step) ==
  \/ step.op = "hostRequestTimeout"
  \/ step.op = "hostHandleMessage" /\ step.id # Null /\ "error" \in DOMAIN step.data

\* C14: when the host receives the initialized notification it is marked
\* initialized, the retry counter is 0 and no retry timer stays armed, so no
\* retry scheduled before the notification can fire after it
C14_InitializedCancelsRetries ==
  [][InitializedStep(last') =>
       /\ isInitialized'
       /\ initializeRetries' = 0
       /\ initializeTimer' = Null
       /\ retryTimers' = {}]_vars

\* the initialized notification was dispatched and a retry timer armed
\* before it is still armed
C14_RetrySurvives ==
  /\ InitializedStep(last)
  /\ isInitialized
  /\ retryTimers # {}

\* C15: when the host receives the Success reply to its ui/initialize
\* request it is marked initialized, the retry counter is 0 and no retry
\* timer is armed, whether or not an initialized notification arrives
C15_SuccessReplyInitializes ==
  [][SuccessReplyStep(last') =>
       /\ isInitialized'
       /\ initializeRetries' = 0
       /\ initializeTimer' = Null
       /\ retryTimers' = {}]_vars

\* the Success reply settled the pending ui/initialize request and the host
\* is not initialized
C15_RepliedNotInitialized ==
  /\ SuccessReplyStep(last)
  /\ hostPromises[last.id].state = "fulfilled"
  /\ ~isInitialized

\* C17: an attempt that is rejected when the host is initialized schedules
\* no retry, and once the host is initialized no retry timer fires and
\* posts another ui/initialize
C17_NoRetryOnceInitialized ==
  [][isInitialized =>
       /\ RejectedStep(last') => retryTimers' \subseteq retryTimers
       /\ last'.op # "hostRetry"]_vars

\* an attempt in flight when the host became initialized timed out, and a
\* retry timer is armed
C17_RetryArmedAfterInitialized ==
  /\ isInitialized
  /\ last.op = "hostRequestTimeout"
  /\ retryTimers # {}
  /\ hostNextRequestId = 1

-----------------------------------------------------------------------------
(* Properties of an uncompleted handshake, checked under SpecHandshake *)

HandshakeStep(step) ==
  step.op \in {"handleIframeLoad", "hostRetry", "hostRequestTimeout"}
    \/ (step.op = "hostHandleMessage" /\ step.id # Null)

\* C16: the retry counter never exceeds 5; one frame-load signal that is
\* never followed by a reply or an initialized notification causes at most 6
\* ui/initialize requests; when the sixth has been rejected no retry timer is
\* armed, so nothing more is sent; and no step of the handshake calls onError
C16_RetryBounded ==
  /\ initializeRetries <= 5
  /\ hostNextRequestId <= 6
  /\ Cardinality(DOMAIN hostPromises) <= 6
  /\ (hostNextRequestId = 6 /\ hostPending = {}) => retryTimers = {}
  /\ Cardinality(hostPending) + Cardinality(retryTimers) <= 1
  /\ HandshakeStep(last) => "onError" \notin last.callbacks
  /\ ~isInitialized

\* all six attempts have timed out: the counter is at 5, nothing is pending
\* and no timer is armed
C16_AllAttemptsTimedOut ==
  /\ hostNextRequestId = 6
  /\ initializeRetries = 5
  /\ \A id \in DOMAIN hostPromises : hostPromises[id].by = "timeout"
  /\ hostPending = {}
  /\ retryTimers = {}
  /\ last.op = "hostRequestTimeout"

-----------------------------------------------------------------------------
(* Properties of the host's dispatch, checked under SpecDispatch *)

Dispatched(step) == step.op = "hostHandleMessage" /\ step.handler = "handleAsync"
Resumed(step) == step.op = "hostResume"

\* the host dispatched a tools/call request; the executor settled later
ToolsCallRequest(step) ==
  Dispatched(step) /\ MethodOf(step.data) = TOOLS_CALL /\ IdOf(step.data) # Null
ToolsCallSettled(step) == Resumed(step) /\ step.method = TOOLS_CALL /\ step.id # Null

\* exactly one envelope was posted and it is a reply with this id
OneReply(step, id) ==
  /\ Len(step.posts) = 1
  /\ IsResponse(step.posts[1].msg)
  /\ step.posts[1].msg.id = id

IsError(msg) == "error" \in DOMAIN msg
ErrorMessageOf(msg) == msg.error.message
ErrorCodeOf(msg) == msg.error.code

\* C18: a tools/call request gets exactly one reply with its id, posted when
\* the executor has settled and not before: the Error -32601 when there is no
\* executor, the Success with the executor's value when it resolves, an Error
\* with the failure's message when it throws or rejects
C18_ToolsCallAnswered ==
  [][/\ ToolsCallRequest(last') =>
          LET id == last'.data.id
              b == last'.behaviour
              reply == last'.posts[1].msg
          IN IF b = "awaits" /\ HasParams(last'.data)
               THEN /\ last'.posts = <<>>
                    /\ Cardinality(hostTasks') = Cardinality(hostTasks) + 1
                    /\ \E t \in hostTasks' \ hostTasks :
                         t.id = id /\ t.method = TOOLS_CALL
               ELSE /\ hostTasks' = hostTasks
                    /\ OneReply(last', id)
                    /\ b = "absent" => IsError(reply) /\ ErrorCodeOf(reply) = -32601
                    /\ (b = "returns" /\ HasParams(last'.data))
                         => reply = Success(id, ExecutorValue)
                    /\ (b = "throws" /\ HasParams(last'.data))
                         => IsError(reply) /\ ErrorMessageOf(reply) = CallbackFailure
                    /\ (b # "absent" /\ ~HasParams(last'.data)) => IsError(reply)
     /\ ToolsCallSettled(last') =>
          /\ OneReply(last', last'.id)
          /\ Cardinality(hostTasks') = Cardinality(hostTasks) - 1
          /\ \E t \in hostTasks \ hostTasks' : t.id = last'.id /\ t.method = TOOLS_CALL
          /\ last'.behaviour = "resolves"
               => last'.posts[1].msg = Success(last'.id, ExecutorValue)
          /\ last'.behaviour = "rejects"
               => /\ IsError(last'.posts[1].msg)
                  /\ ErrorMessageOf(last'.posts[1].msg) = CallbackFailure]_vars

\* an executor that was pending resolved and its request got the Success
\* with the executor's value, while another invocation is still suspended
C18_DeferredReply ==
  /\ ToolsCallSettled(last)
  /\ last.behaviour = "resolves"
  /\ last.posts[1].msg = Success(last.id, ExecutorValue)
  /\ hostTasks # {}

\* a callback the host called while handling an envelope threw, or the
\* promise it returned was rejected: at once (behaviour "rejects" of the
\* dispatch) or in a later task (behaviour "rejects" of the resumption)
CallbackFailed(step) ==
  \/ /\ Dispatched(step)
     /\ step.behaviour \in {"throws", "rejects"}
     /\ MethodOf(step.data) \in {INITIALIZED, SIZE_CHANGE, OPEN_LINK, MESSAGE, TOOLS_CALL}
     /\ MethodOf(step.data) \in {OPEN_LINK, TOOLS_CALL} => HasParams(step.data)
  \/ Resumed(step) /\ step.behaviour = "rejects"

FailedId(step) == IF Resumed(step) THEN step.id ELSE IdOf(step.data)

\* C19: when a callback of the host throws or rejects, onError is called, a
\* request is answered with exactly one envelope, the Error -32000 with the
\* failure's message, a notification is answered with nothing, no Success is
\* posted, and the invocation ends: it leaves no suspended task behind and
\* the pending requests, the timers and the handshake state are untouched
C19_CallbackFailureCaught ==
  [][CallbackFailed(last') =>
       /\ "onError" \in last'.callbacks
       /\ last'.posts =
            IF FailedId(last') # Null
              THEN <<[msg |-> ErrorResponse(FailedId(last'), -32000, CallbackFailure),
                      target |-> targetOrigin']>>
              ELSE <<>>
       /\ hostTasks' \subseteq hostTasks
       /\ UNCHANGED <<hostPending, hostTimers, hostPromises, hostNextRequestId,
                      retryTimers>>]_vars

\* the promise onOpenLink returned for a ui/open-link request was rejected:
\* onError was not called and the request was answered with Success {ok:true}
C19_RejectionUncaught ==
  /\ Dispatched(last)
  /\ last.behaviour = "rejects"
  /\ MethodOf(last.data) = OPEN_LINK
  /\ IdOf(last.data) # Null
  /\ "onOpenLink" \in last.callbacks
  /\ "onError" \notin last.callbacks
  /\ last.posts = <<[msg |-> Success(IdOf(last.data), OkResult), target |-> targetOrigin]>>

-----------------------------------------------------------------------------
(* Properties of the hook's tool state, checked under SpecStream *)

\* the subscribed hook was handed the toolInputPartial event of this step
PartialDelivered(step) ==
  /\ ClientEnvelope(step)
  /\ MethodOf(step.data) = TOOL_INPUT_PARTIAL
  /\ "toolInputPartial" \in step.callbacks

\* the payload carries one of the two progress markers
ProgressMarked(args) ==
  \/ ("kind" \in DOMAIN args /\ args.kind = "botdojo-tool-progress")
  \/ ("_botdojoProgress" \in DOMAIN args /\ args._botdojoProgress = TRUE)

\* C20: a progress-marked toolInputPartial makes toolProgress equal to its
\* payload, whatever toolProgress held, and leaves partialUpdate alone; when
\* the status is 'complete' nothing else of the tool state changes, so status
\* stays 'complete' and isStreaming stays FALSE.  A payload without a marker
\* leaves toolProgress alone.
C20_ProgressReplacesWholesale ==
  [][(subscribed /\ PartialDelivered(last')) =>
       LET args == last'.data.params.arguments IN
         /\ ProgressMarked(args) =>
              /\ tool'.toolProgress = args
              /\ tool'.partialUpdate = tool.partialUpdate
              /\ tool.status = "complete" =>
                   /\ tool' = [tool EXCEPT !.toolProgress = args]
                   /\ tool'.status = "complete"
                   /\ ~tool'.isStreaming
         /\ ~ProgressMarked(args) => tool'.toolProgress = tool.toolProgress]_vars

\* a second progress payload arrived after the result: the tool is complete,
\* not streaming, and toolProgress is the second payload alone
C20_ProgressAfterComplete ==
  /\ PartialDelivered(last)
  /\ subscribed
  /\ tool.status = "complete"
  /\ ~tool.isStreaming
  /\ tool.result = [text |-> "done"]
  /\ last.data.params.arguments = [_botdojoProgress |-> TRUE, step |-> 1]
  /\ tool.toolProgress = [_botdojoProgress |-> TRUE, step |-> 1]
  /\ last.repeat = 1

\* the subscribed hook was handed an argument chunk: a toolInputPartial
\* event whose payload carries no progress marker
ChunkDelivered(step) ==
  PartialDelivered(step) /\ ~ProgressMarked(step.data.params.arguments)

\* C21: the argument chunks of toolInputPartial events accumulate in the
\* hook's tool state by shallow merge in arrival order, the keys of a later
\* chunk overriding those of an earlier one, and the status is 'streaming'
\* unless the tool is complete; the buffer may be arguments or partialUpdate
C21_ChunksMerge ==
  [][(subscribed /\ ChunkDelivered(last')) =>
       LET args == last'.data.params.arguments IN
         /\ \/ tool'.arguments = Spread(tool.arguments, args)
            \/ tool'.partialUpdate = Spread(tool.partialUpdate, args)
         /\ tool.status # "complete" => tool'.status = "streaming"]_vars

\* the chunk {a: 1} arrived after {a: 2, b: 3}: the client holds the merge of
\* both, the hook holds the last chunk alone and no arguments
C21_LastChunkOnly ==
  /\ ChunkDelivered(last)
  /\ subscribed
  /\ last.data.params.arguments = [a |-> 1]
  /\ clientState.tool.arguments = [a |-> 1, b |-> 3]
  /\ tool.partialUpdate = [a |-> 1]
  /\ tool.arguments = NullObj
  /\ tool.status = "streaming"

\* the subscribed hook was handed the toolInput event of this step
InputDelivered(step) ==
  /\ ClientEnvelope(step)
  /\ MethodOf(step.data) = TOOL_INPUT
  /\ "toolInput" \in step.callbacks

\* C22: a toolInput event makes arguments equal to its payload, whatever
\* arguments held, and sets partialUpdate to null; when the status is
\* 'complete' the status, isStreaming and the result stay as they are,
\* from every other status the status becomes 'streaming', isStreaming TRUE
\* and the result null; toolProgress is unchanged in both cases
C22_InputReplacesArguments ==
  [][(subscribed /\ InputDelivered(last')) =>
       /\ tool'.arguments = last'.data.params.arguments
       /\ tool'.partialUpdate = NullObj
       /\ tool'.toolProgress = tool.toolProgress
       /\ IF tool.status = "complete"
            THEN /\ tool'.status = "complete"
                 /\ tool'.isStreaming = tool.isStreaming
                 /\ tool'.result = tool.result
            ELSE /\ tool'.status = "streaming"
                 /\ tool'.isStreaming
                 /\ tool'.result = NullObj]_vars

\* a toolInput arrived for a tool that had reported progress and was not
\* complete: the arguments are the payload alone, the progress is kept
C22_InputDuringProgress ==
  /\ InputDelivered(last)
  /\ subscribed
  /\ last.repeat = 1
  /\ last.data.params.arguments = [b |-> 4]
  /\ tool.arguments = [b |-> 4]
  /\ clientState.tool.arguments = [b |-> 4]
  /\ tool.toolProgress # NullObj
  /\ tool.status = "streaming"

\* the client handled a tool-result notification whose params name the tool
ResultHandled(step) ==
  /\ ClientEnvelope(step)
  /\ step.handler = ClientHandler
  /\ MethodOf(step.data) = TOOL_RESULT
  /\ ~ThrowsOnRead(ParamsOf(step.data))
  /\ ~ThrowsOnRead(Field(step.data.params, "tool"))

\* params.result, undefined when the notification has none
ResultIn(step) == Field(step.data.params, "result")

\* C23: a toolResult whose result is the empty string or undefined changes
\* nothing in the client or the hook and emits no event; every other
\* toolResult, from every status, is emitted, and the hook stores the
\* result, sets toolProgress to null, status to 'complete' and isStreaming
\* to FALSE, leaving arguments and partialUpdate as they are
C23_ResultStoredOrDiscarded ==
  [][ResultHandled(last') =>
       IF ResultIn(last') \in {EmptyString, Undefined}
         THEN UNCHANGED <<clientVars, hookVars>> /\ Silent(last')
         ELSE /\ "toolResult" \in last'.callbacks
              /\ clientState'.tool.result = ResultIn(last')
              /\ ~clientState'.tool.isStreaming
              /\ subscribed =>
                   /\ tool'.result = ResultIn(last')
                   /\ tool'.toolProgress = NullObj
                   /\ tool'.status = "complete"
                   /\ ~tool'.isStreaming
                   /\ tool'.arguments = tool.arguments
                   /\ tool'.partialUpdate = tool.partialUpdate]_vars

\* an empty-string result arrived while the tool was streaming with progress
\* reported: the hook's tool state still streams and keeps the progress
C23_EmptyResultDiscarded ==
  /\ ResultHandled(last)
  /\ ResultIn(last) = EmptyString
  /\ subscribed
  /\ tool.status = "streaming"
  /\ tool.toolProgress # NullObj
  /\ tool.result = NullObj
  /\ clientState.tool.isStreaming

\* the subscribed hook was handed the resourceTeardown event of this step
TeardownDelivered(step) ==
  /\ ClientEnvelope(step)
  /\ MethodOf(step.data) = RESOURCE_TEARDOWN
  /\ "resourceTeardown" \in step.callbacks

\* C24: a resourceTeardown event sets status to 'teardown' and isStreaming
\* to FALSE from every status and changes no other field of the tool state
C24_TeardownKeepsData ==
  [][(subscribed /\ TeardownDelivered(last')) =>
       /\ tool'.status = "teardown"
       /\ ~tool'.isStreaming
       /\ tool' = [tool EXCEPT !.status = "teardown", !.isStreaming = FALSE]]_vars

\* the teardown arrived after a completed tool call: the arguments and the
\* result are still there
C24_TeardownAfterComplete ==
  /\ TeardownDelivered(last)
  /\ subscribed
  /\ last.repeat = 1
  /\ tool.status = "teardown"
  /\ tool.result = [text |-> "done"]
  /\ tool.arguments = [a |-> 1]
  /\ tool.partialUpdate # NullObj

\* the client handled a tool-input-partial or tool-input notification
ArgumentsHandled(step) ==
  /\ ClientEnvelope(step)
  /\ step.handler = ClientHandler
  /\ MethodOf(step.data) \in {TOOL_INPUT_PARTIAL, TOOL_INPUT}
  /\ ~ThrowsOnRead(ParamsOf(step.data))

\* the arguments are the empty string, null, or no object at all
NoArguments(args) ==
  \/ args = EmptyString
  \/ args = NullObj
  \/ args = Undefined
  \/ DOMAIN args \cap {"string", "number", "boolean"} # {}

\* C25: a tool-input-partial or tool-input notification whose arguments is
\* the empty string, null or not an object changes nothing in the client or
\* the hook, and no event is emitted
C25_PlaceholderDiscarded ==
  [][(ArgumentsHandled(last') /\ NoArguments(Field(last'.data.params, "arguments")))
       => (UNCHANGED <<clientVars, hookVars>> /\ Silent(last'))]_vars

\* a tool-input notification with null arguments arrived while the tool
\* was streaming chunks: the client and the hook hold what they held
C25_NullArgumentsDiscarded ==
  /\ ArgumentsHandled(last)
  /\ MethodOf(last.data) = TOOL_INPUT
  /\ Field(last.data.params, "arguments") = NullObj
  /\ subscribed
  /\ tool.status = "streaming"
  /\ tool.partialUpdate = [a |-> 2, b |-> 3]
  /\ clientState.tool.arguments = [a |-> 2, b |-> 3]

-----------------------------------------------------------------------------
(* C26 *)

\* C26: no protocol event resets a tool state. Once the status of useMcpApp's
\* ToolState has left 'idle', no step brings it back: not ui/initialize, not a
\* tool notification, not host-context-changed, not resource-teardown, nor
\* the mounting and unmounting of the hook. The status of useMcpToolStream
\* returns to 'idle' in no step but a call of reset.
C26_OnlyResetReturnsToIdle ==
  [][/\ tool.status # "idle" => tool'.status # "idle"
     /\ (stream.status # "idle" /\ stream'.status = "idle") => last'.op = "reset"]_vars

\* ui/initialize arrived at the subscribed hook after a result had completed
\* the tool call, and the caller's stream has been reset after a teardown
C26_InitializeAfterComplete ==
  /\ last.op = "clientReceive"
  /\ MethodOf(last.data) = INITIALIZE
  /\ "initialize" \in last.callbacks
  /\ subscribed
  /\ tool.status = "complete"
  /\ stream = initialState
  /\ clientState.tool.result = [text |-> "done"]

-----------------------------------------------------------------------------
(* C27 *)

\* the invocation of handleAsync this step started is suspended at its await
Suspended(step, before, after) ==
  /\ step.posts = <<>>
  /\ \E t \in after \ before : t.id = IdOf(step.data) /\ t.method = MethodOf(step.data)

\* C27: a suspended handleAsync blocks nothing. While invocations wait for an
\* executor or an onMessage handler, the host still handles every envelope:
\* the waiting invocations stay as they are, a request is answered at once
\* with one reply carrying its own id (or is suspended itself), the
\* initialized notification sets isInitialized; and when a waiting invocation
\* resumes, its reply carries the id of its own request.
C27_SuspensionDoesNotBlock ==
  [][/\ (hostTasks # {} /\ Dispatched(last')) =>
          /\ hostTasks \subseteq hostTasks'
          /\ IdOf(last'.data) # Null =>
                \/ OneReply(last', IdOf(last'.data)) /\ hostTasks' = hostTasks
                \/ Suspended(last', hostTasks, hostTasks')
          /\ MethodOf(last'.data) = INITIALIZED => isInitialized'
     /\ (Resumed(last') /\ last'.id # Null) =>
          /\ OneReply(last', last'.id)
          /\ \A t \in hostTasks' : t \in hostTasks]_vars

\* the second tools/call was answered with the executor's value while the
\* executor of the first, which arrived earlier, has not settled
C27_LaterAnsweredFirst ==
  /\ ToolsCallRequest(last)
  /\ last.data.id = McpId(2)
  /\ last.behaviour = "returns"
  /\ last.posts = hostSend(Success(McpId(2), ExecutorValue), targetOrigin)
  /\ \E t \in hostTasks : t.id = McpId(1) /\ t.method = TOOLS_CALL

-----------------------------------------------------------------------------
(* C28 *)

\* the steps of the host component; every other step that posts is one of
\* the transport
HostOps == {"handleIframeLoad", "hostRetry", "hostRequestTimeout", "hostHandleMessage",
            "hostResume"}

\* the origin an endpoint has learned when the step is over, the wildcard
\* when it has learned none
SessionOrigin(step, learned, target) ==
  IF step.op \in HostOps THEN target
  ELSE IF learned # Null THEN learned ELSE Wildcard

\* C28: every envelope an endpoint posts is addressed to the origin it has
\* learned, the one learned from the very event it answers included, and to
\* the wildcard only while none is learned; getOrigin() is that address.
C28_PostsToSessionOrigin ==
  [][/\ \A i \in 1..Len(last'.posts) :
          /\ last'.posts[i].target = SessionOrigin(last', learnedOrigin', targetOrigin')
          /\ (last'.op \notin HostOps /\ learnedOrigin' # Null)
               => last'.posts[i].target # Wildcard
     /\ getOrigin' = (IF learnedOrigin' # Null THEN learnedOrigin' ELSE Wildcard)]_vars

\* the transport has learned an origin from a valid envelope and posts its
\* next request to that origin
C28_RequestToLearnedOrigin ==
  /\ last.op = "sendRequest"
  /\ learnedOrigin = "https://other.example"
  /\ Len(last.posts) = 1
  /\ last.posts[1].target = "https://other.example"

-----------------------------------------------------------------------------
(* C29 *)

\* the methods the dispatchers have a case for
ClientMethods == {INITIALIZE, TOOL_INPUT_PARTIAL, TOOL_INPUT, TOOL_RESULT,
                  HOST_CONTEXT_CHANGED, RESOURCE_TEARDOWN}
HostMethods == {INITIALIZED, SIZE_CHANGE, OPEN_LINK, MESSAGE, TOOLS_CALL}

\* a dispatcher was handed a request whose method it has no case for
UnknownRequest(step) ==
  /\ IdOf(step.data) # Null
  /\ MethodOf(step.data) # ""
  /\ \/ Dispatched(step) /\ MethodOf(step.data) \notin HostMethods
     \/ /\ step.op = "clientReceive"
        /\ step.handler = ClientHandler
        /\ MethodOf(step.data) \notin ClientMethods

\* C29: a request with an unknown method is answered with one Error envelope
\* that carries the method-not-found code and the id of the request.
C29_UnknownMethodRejected ==
  [][UnknownRequest(last') =>
       /\ OneReply(last', IdOf(last'.data))
       /\ IsError(last'.posts[1].msg)
       /\ ErrorCodeOf(last'.posts[1].msg) = MethodNotFound]_vars

\* the host answered a request with an unknown method with a Success whose
\* result is {ok: true, ignored: true}
C29_UnknownMethodAcknowledged ==
  /\ UnknownRequest(last)
  /\ last.op = "hostHandleMessage"
  /\ last.posts = hostSend(Success(IdOf(last.data), IgnoredResult), targetOrigin)

-----------------------------------------------------------------------------
(* C30 *)

\* the client's handleMessage was handed the envelope of this step
ClientHandled(step) == step.op = "clientReceive" /\ step.handler = ClientHandler

\* a TypeError left the client's handleMessage and the transport's listener
Faulted(step) == "throws" \in step.callbacks

\* C30: no envelope that passes the version-marker check makes the client's
\* handleMessage throw, whatever its params hold or lack, and a ui/initialize
\* request is answered.
C30_NoUnhandledFault ==
  [][ClientHandled(last') =>
       /\ ~Faulted(last')
       /\ (MethodOf(last'.data) = INITIALIZE /\ IdOf(last'.data) # Null)
            => \E i \in 1..Len(last'.posts) :
                 /\ IsResponse(last'.posts[i].msg)
                 /\ last'.posts[i].msg.id = IdOf(last'.data)]_vars

\* a ui/initialize request without params made handleInitialize throw at
\* params.appInfo: the request is not answered, the client is not
\* initialized, no event was emitted
C30_InitializeWithoutParamsThrows ==
  /\ ClientHandled(last)
  /\ MethodOf(last.data) = INITIALIZE
  /\ IdOf(last.data) # Null
  /\ ~HasParams(last.data)
  /\ last.callbacks = {"throws"}
  /\ last.posts = <<>>
  /\ ~clientState.isInitialized

-----------------------------------------------------------------------------
(* C31 *)

\* the client's snapshot shows a finished tool call: a result is stored and
\* isStreaming is FALSE
ResultApplied(state) == ~state.tool.isStreaming /\ state.tool.result # NullObj

\* C31: the client's own snapshot never regresses. Once a result is stored
\* and isStreaming is FALSE, a tool-input-partial or tool-input notification
\* neither sets isStreaming nor clears the result.
C31_SnapshotNeverRegresses ==
  [][(ResultApplied(clientState) /\ ArgumentsHandled(last')) =>
       /\ ~clientState'.tool.isStreaming
       /\ clientState'.tool.result = clientState.tool.result]_vars

\* an argument chunk arrived after the result: the hook still shows the
\* finished call, the client's snapshot shows a streaming one without result
C31_SnapshotRegressed ==
  /\ ArgumentsHandled(last)
  /\ MethodOf(last.data) = TOOL_INPUT_PARTIAL
  /\ subscribed
  /\ tool.status = "complete"
  /\ tool.result = [text |-> "done"]
  /\ clientState.tool.isStreaming
  /\ clientState.tool.result = NullObj

-----------------------------------------------------------------------------
(* C32 *)

\* the caller handed useMcpToolStream a partial or a final input
StreamArguments(step) == step.op \in {"handleToolInputPartial", "handleToolInput"}

\* C32: useMcpToolStream keeps the completion guard. When the status is
\* 'complete', handleToolInputPartial and handleToolInput leave the status
\* 'complete' and isStreaming FALSE.
C32_StreamCompleteStays ==
  [][(stream.status = "complete" /\ StreamArguments(last')) =>
       /\ stream'.status = "complete"
       /\ ~stream'.isStreaming]_vars

\* a partial input handed over after the result: the stream holds the
\* result of the finished call and shows it as streaming
C32_StreamReopened ==
  /\ last.op = "handleToolInputPartial"
  /\ stream.result = [text |-> "done"]
  /\ stream.status = "streaming"
  /\ stream.isStreaming

-----------------------------------------------------------------------------
(* C33 *)

\* part_002:293-310   the ToolState a hook that subscribes now would take
\* from the client's snapshot
CatchUp(state) ==
  IF state.isInitialized THEN SyncTool(ToolInitialState, state.tool) ELSE ToolInitialState

\* the fields the catch-up sync is said to recover
Recovered(t) ==
  [name |-> t.name, arguments |-> t.arguments, result |-> t.result,
   status |-> t.status, isStreaming |-> t.isStreaming]

\* C33: no tool event is lost before the hook subscribes. After every
\* sequence of ui/initialize and tool envelopes, the name, arguments, result,
\* status and isStreaming a catch-up sync takes from the client's snapshot
\* are those of a hook that was subscribed from the start and folded the
\* same events.
C33_CatchUpEqualsFold ==
  subscribed => Recovered(CatchUp(clientState)) = Recovered(tool)

\* the final arguments arrived and no ui/initialize: the hook that folded
\* the event streams with the arguments, the catch-up sync copies nothing
C33_InputLostWithoutInitialize ==
  /\ subscribed
  /\ ~clientState.isInitialized
  /\ InputDelivered(last)
  /\ tool.status = "streaming"
  /\ tool.arguments = [b |-> 4]
  /\ CatchUp(clientState) = ToolInitialState

-----------------------------------------------------------------------------
(* C34 *)

\* the handshake attempts in progress: the ui/initialize requests that are
\* pending (the host sends no other request) and the retry timers armed
AttemptsInProgress == Cardinality(hostPending) + Cardinality(retryTimers)

\* C34: the host has at most one handshake attempt in progress: at most one
\* pending ui/initialize request, at most one armed retry timer, and never
\* both, also when the frame loads again.
C34_OneAttemptInProgress == AttemptsInProgress <= 1

\* the frame loaded again while the first request was pending: two
\* ui/initialize requests are pending
C34_SecondLoadAddsAttempt ==
  /\ last.op = "handleIframeLoad"
  /\ hostPending = {HostId(1), HostId(2)}
  /\ retryTimers = {}

-----------------------------------------------------------------------------
(* C35 *)

\* the client's listener is attached and the host can still post a
\* ui/initialize request: the counter of retries is below its limit
AttachedInTime == started /\ initializeRetries < RetryLimit

\* C35: the handshake completes. From every state in which the client, with
\* autoAcknowledge set, has attached its listener before the host's retries
\* are exhausted, the host becomes initialized and so does the client, even
\* when the requests posted before were lost.
C35_HandshakeCompletes ==
  AttachedInTime ~> (isInitialized /\ clientState.isInitialized)

\* both ends are initialized by the second request: the first reached the
\* frame before the client listened and was lost
C35_CompletedAfterLoss ==
  /\ isInitialized
  /\ clientState.isInitialized
  /\ hostNextRequestId = 2
  /\ hostPromises[HostId(1)].by = "timeout"
  /\ hostPromises[HostId(2)].state = "fulfilled"
  /\ toApp = <<>>
  /\ toHost = <<>>

-----------------------------------------------------------------------------
(* C36 *)

\* the request was issued / has ended: its promise is settled and its id is
\* not in the pending table
Issued(id) == id \in DOMAIN promises
Ended(id) == id \in DOMAIN promises /\ IsSettled(promises[id]) /\ id \notin pendingRequests

\* C36: every request ends. Provided timers fire, the promise of every
\* sendRequest is settled in the end and its id has left the pending table,
\* whether or not a response arrives, the transport was started, or stop()
\* is called before or after.
C36_EveryRequestEnds ==
  \A n \in 1..MaxRequests : Issued(McpId(n)) ~> Ended(McpId(n))

\* a request issued on a transport that is not started ended by its timeout
C36_EndedWithoutStart ==
  /\ last.op = "requestTimeout"
  /\ ~started
  /\ listeners = 0
  /\ learnedOrigin = Null
  /\ Ended(last.id)
  /\ promises[last.id].by = "timeout"

-----------------------------------------------------------------------------
(* C37 *)

\* the positions of the Success and Error envelopes among a step's posts
ReplyIndices(step) == {i \in 1..Len(step.posts) : IsResponse(step.posts[i].msg)}

\* the id of the request the step's handler invocation is about
ReceivedId(step) == IF Resumed(step) THEN step.id ELSE IdOf(step.data)

\* C37: replies answer received requests, once. A dispatcher's invocation for
\* an envelope posts at most one Success or Error, with the id of that
\* envelope, and none when the envelope has no id; an invocation that is
\* suspended posts its reply when it resumes and then is gone.
C37_RepliesAnswerRequests ==
  [][(Dispatched(last') \/ Resumed(last') \/ ClientHandled(last')) =>
       LET replies == ReplyIndices(last') IN
         /\ Cardinality(replies) <= 1
         /\ \A i \in replies :
              /\ ReceivedId(last') # Null
              /\ last'.posts[i].msg.id = ReceivedId(last')
         /\ Resumed(last') =>
              /\ Cardinality(hostTasks') = Cardinality(hostTasks) - 1
              /\ \E t \in hostTasks \ hostTasks' : t.id = last'.id
         /\ (Dispatched(last') /\ hostTasks' # hostTasks) =>
              /\ replies = {}
              /\ \E t \in hostTasks' \ hostTasks : t.id = IdOf(last'.data)]_vars

\* the client handled ui/initialize sent as a notification: it posted the
\* initialized notification and no reply
C37_NotificationNotAnswered ==
  /\ ClientHandled(last)
  /\ MethodOf(last.data) = INITIALIZE
  /\ IdOf(last.data) = Null
  /\ clientState.isInitialized
  /\ Len(last.posts) = 1
  /\ ReplyIndices(last) = {}

-----------------------------------------------------------------------------
(* C38 *)

\* C38: in every state of useMcpApp's ToolState, the one the catch-up sync
\* produces included, isStreaming is TRUE exactly when the status is
\* 'streaming'.
C38_StreamingIffStatus == tool.isStreaming <=> (tool.status = "streaming")

\* the effect ran after the client had received ui/initialize and the
\* arguments of a tool call: the sync copied a streaming tool
C38_SyncedWhileStreaming ==
  /\ last.op = "hookMount"
  /\ subscribed
  /\ clientState.isInitialized
  /\ clientState.tool.isStreaming
  /\ tool.arguments = clientState.tool.arguments
  /\ tool.status = "streaming"
  /\ tool.isStreaming

-----------------------------------------------------------------------------
(* C39 *)

\* C39: the status 'error' is unreachable. Neither the ToolState of useMcpApp
\* nor the state of useMcpToolStream ever has status 'error', whatever
\* protocol events, cancellations, calls of the handlers and resets occur.
C39_ErrorUnreachable == tool.status # "error" /\ stream.status # "error"

\* ui/tool-cancelled arrived at the client while the hook
\* showed a streaming tool: no event was emitted, the tool still streams
C39_CancelledWhileStreaming ==
  /\ ClientHandled(last)
  /\ MethodOf(last.data) = TOOL_CANCELLED
  /\ last.callbacks = {}
  /\ subscribed
  /\ tool.status = "streaming"
  /\ stream.status = "teardown"

-----------------------------------------------------------------------------
(* C40 *)

\* the fields of ToolState that describe the tool call in flight
StreamOf(t) ==
  [arguments |-> t.arguments, partialUpdate |-> t.partialUpdate,
   toolProgress |-> t.toolProgress, result |-> t.result, status |-> t.status,
   isStreaming |-> t.isStreaming]

\* the name hostContext.toolInfo of a ui/initialize envelope gives the tool,
\* "" when the envelope names none
NamedTool(data) ==
  IF HasParams(data) THEN ToolInfoName(Field(data.params, "hostContext")) ELSE ""

\* C40: a ui/initialize envelope, first or repeated, leaves the tool call in
\* flight untouched. The client's state.tool is unchanged, and in the hook's
\* ToolState nothing but the name changes, and the name only to the one that
\* hostContext.toolInfo gives.
C40_InitializeKeepsStream ==
  [][(ClientHandled(last') /\ MethodOf(last'.data) = INITIALIZE) =>
       /\ clientState'.tool = clientState.tool
       /\ StreamOf(tool') = StreamOf(tool)
       /\ tool'.name # tool.name => tool'.name = NamedTool(last'.data)]_vars

\* a second ui/initialize, naming the tool "u", reached the initialized
\* client and the subscribed hook in the middle of a stream: the hook shows
\* the new name with the arguments streamed so far
C40_RenamedWhileStreaming ==
  /\ ClientHandled(last)
  /\ MethodOf(last.data) = INITIALIZE
  /\ "initialize" \in last.callbacks
  /\ NamedTool(last.data) = "u"
  /\ subscribed
  /\ clientState.appInfo = [name |-> "other"]
  /\ clientState.tool.isStreaming
  /\ clientState.tool.name = "t"
  /\ tool.name = "u"
  /\ tool.status = "streaming"
  /\ tool.arguments = [a |-> 1]

====
